---------------------------- MODULE Spec2Model ----------------------------
(***************************************************************************)
(* A model of DLHDExtractor (src/dlhd_extractor_cli.py): the cache store   *)
(* (_load_cache / _save_cache), the resilient transport                    *)
(* (_make_robust_request), and extract() / invalidate_cache_for_url() run  *)
(* by several coroutines of one asyncio event loop.                        *)
(*                                                                         *)
(* Scheduling is cooperative: exactly one coroutine runs at a time and     *)
(* control changes hands only at an await that really suspends.  The       *)
(* variable `running` holds the coroutine that is executing synchronous    *)
(* code; when it is NoProc the event loop is free to resume any coroutine  *)
(* whose awaited event has completed.                                      *)
(***************************************************************************)
EXTENDS Naturals, Sequences, FiniteSets, TLC

VARIABLES
    cache,      \* self._stream_data_cache: an insertion-ordered dict, as a sequence of [k, v]
    file,       \* the content of self.cache_file (NoFile when it does not exist)
    hist,       \* the last cache-store operations and what they replaced (history);
                \* for a function applied on its own, its input and its result
    session,    \* self.session: "none" or "open"
    baseUrl,    \* self._cached_base_url (NoBase for None)
    ctx,        \* self._iframe_context ("" for None)
    locks,      \* self._extraction_locks: channel id -> lock object id (0: no entry)
    lockObj,    \* the asyncio.Lock objects created so far, by id
    proc,       \* each coroutine's call: arguments, locals, position, result
    fetch,      \* each coroutine's _make_robust_request frame
    running,    \* the coroutine executing synchronous code, or NoProc
    calls,      \* calls started so far (bounded by MaxCalls)
    faults      \* requests that met a failing attempt so far (bounded by MaxFaults)

vars == <<cache, file, hist, session, baseUrl, ctx, locks, lockObj, proc, fetch,
          running, calls, faults>>

-----------------------------------------------------------------------------
(* Bounds of the model *)

NumProcs == 2
NumChannels == 2
MaxCalls == 2
MaxFaults == 1
MaxRetries == 3
MaxDelay == 2
MaxLinks == 2
MaxPieces == 3

(* Program constants *)

DefaultRetries == 3
DefaultDelay == 2

Procs == 1..NumProcs
NoProc == 0
Channels == 1..NumChannels
NoChannel == 0

-----------------------------------------------------------------------------
(* Stream descriptors *)

DigitStr == <<"1", "2", "3", "4", "5", "6", "7", "8", "9">>

\* The texts that the manifest URL is made of are sequences of characters.
\* The channel key a channel's iframe page declares.
ChannelKey(c) == <<DigitStr[c]>>

\* The server keys of the walk: "top1/cdn" and "wind".
ServerKeyList == << <<"t", "o", "p", "1", "/", "c", "d", "n">>, <<"w", "i", "n", "d">> >>
ServerKeys == {ServerKeyList[i] : i \in 1..Len(ServerKeyList)}

IframeUrlText == <<"h", "t", "t", "p", "s", ":", "/", "/", "e", "m", "b", "e", "d", ".", "e", "x", "a", "m", "p", "l", "e", "/", "p", "r", "e", "m", "i", "u", "m", "t", "v", "/", "f", "r", "a", "m", "e", ".", "p", "h", "p">>
IframeUrl == "https://embed.example/premiumtv/frame.php"
IframeOrigin == "https://embed.example"
UserAgent == "Mozilla/5.0"
MediaflowEndpoint == "hls_manifest_proxy"

\* The string of a sequence of characters.
RECURSIVE Join(_)
Join(chars) == IF Len(chars) = 0 THEN "" ELSE chars[1] \o Join(Tail(chars))

\* A replace that leaves the text as it is.
ReplaceNothing(text, old, new) == text

\* str.replace(old, new): every occurrence of old, found from the left and
\* not overlapping the one before, becomes new.
RECURSIVE Replace(_, _, _)
Replace(text, old, new) ==
    IF Len(text) < Len(old) THEN text
    ELSE IF SubSeq(text, 1, Len(old)) = old
    THEN new \o Replace(SubSeq(text, Len(old) + 1, Len(text)), old, new)
    ELSE <<text[1]>> \o Replace(Tail(text), old, new)

HasSlash(server_key) == \E i \in 1..Len(server_key) : server_key[i] = "/"

\* A split that takes the part after the last '/'.
LastPart(server_key) ==
    LET i == CHOOSE j \in 1..Len(server_key) :
                 server_key[j] = "/" /\ \A k \in (j + 1)..Len(server_key) : server_key[k] # "/"
    IN  SubSeq(server_key, i + 1, Len(server_key))

\* line 357: server_key.split('/')[0] of a key with a '/' in it
FirstPart(server_key) ==
    LET i == CHOOSE j \in 1..Len(server_key) :
                 server_key[j] = "/" /\ \A k \in 1..(j - 1) : server_key[k] # "/"
    IN  SubSeq(server_key, 1, i - 1)

\* The text sub stands in text at place i, and somewhere (`sub in text`).
StandsAt(sub, text, i) ==
    i + Len(sub) - 1 <= Len(text) /\ SubSeq(text, i, i + Len(sub) - 1) = sub
Occurs(sub, text) == \E i \in 1..(Len(text) + 1) : StandsAt(sub, text, i)

\* lines 353-360: clean_m3u8_url
ManifestUrl(server_key, channel_key) ==
    LET https == <<"h", "t", "t", "p", "s", ":", "/", "/">>
        host == <<".", "n", "e", "w", "k", "s", "o", ".", "r", "u", "/">>
        mono == <<"/", "m", "o", "n", "o", ".", "m", "3", "u", "8">>
        new == <<"n", "e", "w">>
        top1 == <<"t", "o", "p", "1">>
        cdn == <<"c", "d", "n">>
    IN  IF server_key = top1 \o <<"/">> \o cdn
        THEN https \o top1 \o host \o top1 \o <<"/">> \o cdn \o <<"/">>
                 \o channel_key \o mono
        ELSE IF HasSlash(server_key)
        THEN https \o FirstPart(server_key) \o host \o server_key \o <<"/">>
                 \o channel_key \o mono
        ELSE Replace(https \o server_key \o new \o host \o server_key \o <<"/">>
                         \o channel_key \o mono,
                     <<"t", "o", "p", "2">> \o new, top1 \o new)

\* lines 361-364: stream_headers
StreamHeaders(clean_m3u8_url, iframe_url, iframe_origin) ==
    IF Occurs(<<"n", "e", "w", "k", "s", "o", ".", "r", "u">>, clean_m3u8_url)
    THEN [UserAgent |-> UserAgent, Referer |-> iframe_url, Origin |-> iframe_origin]
    ELSE [UserAgent |-> UserAgent, Referer |-> iframe_origin, Origin |-> iframe_origin]

\* lines 353-365: result_data
ResultData(server_key, channel_key, iframe_url, iframe_origin) ==
    [destination_url |-> Join(ManifestUrl(server_key, channel_key)),
     request_headers |-> StreamHeaders(ManifestUrl(server_key, channel_key),
                                       iframe_url, iframe_origin),
     mediaflow_endpoint |-> MediaflowEndpoint]

\* An entry without a usable destination_url (a cache file written by hand or by
\* another version): cached_data.get('destination_url') is falsy.
NoUrlData ==
    [destination_url |-> "",
     request_headers |-> [UserAgent |-> UserAgent, Referer |-> IframeUrl,
                          Origin |-> IframeOrigin],
     mediaflow_endpoint |-> MediaflowEndpoint]

NoData == [destination_url |-> "none", request_headers |-> <<>>, mediaflow_endpoint |-> ""]

\* Every descriptor a cache can hold, in a fixed order (its place is its code
\* in the persisted text).
DescList ==
    <<NoUrlData>> \o
    [i \in 1..(Len(ServerKeyList) * NumChannels) |->
        ResultData(ServerKeyList[((i - 1) % Len(ServerKeyList)) + 1],
                   ChannelKey(((i - 1) \div Len(ServerKeyList)) + 1),
                   IframeUrl, IframeOrigin)]
Descs == {DescList[i] : i \in 1..Len(DescList)}
DescCode(d) == CHOOSE i \in 1..Len(DescList) : DescList[i] = d

-----------------------------------------------------------------------------
(* The insertion-ordered dict *)

DictKeys(d) == {d[i].k : i \in 1..Len(d)}
DictHas(d, key) == key \in DictKeys(d)
DictGet(d, key) == d[CHOOSE i \in 1..Len(d) : d[i].k = key].v
DictDel(d, key) == SelectSeq(d, LAMBDA e : e.k # key)
DictSet(d, key, val) ==
    IF DictHas(d, key)
    THEN [i \in 1..Len(d) |-> IF d[i].k = key THEN [k |-> key, v |-> val] ELSE d[i]]
    ELSE Append(d, [k |-> key, v |-> val])
\* Python's dict equality: the same keys with the same values, in any order.
DictEq(a, b) ==
    /\ DictKeys(a) = DictKeys(b)
    /\ \A key \in DictKeys(a) : DictGet(a, key) = DictGet(b, key)
AsMap(d) == [key \in DictKeys(d) |-> DictGet(d, key)]

-----------------------------------------------------------------------------
(* The persisted text.  json.dumps writes the dict as the characters           *)
(*   { key : SP value , SP key : SP value }                                    *)
(* (a key and a value are one character each here: a channel id, a descriptor's *)
(* code), str.encode gives their bytes, and base64 turns every three bytes into *)
(* four characters of a 64-letter alphabet, '=' padding the last group.        *)
(* A character of the file is 0..63 (a base64 letter), PadChar ('=') or        *)
(* JunkChar (any character outside the alphabet).                              *)

\* os.path.exists(self.cache_file) is false.
NoFile == [exists |-> FALSE, text |-> <<>>]
FileOf(text) == [exists |-> TRUE, text |-> text]

PadChar == 64
JunkChar == 65

LBrace == 123
RBrace == 125
Colon == 58
Comma == 44
Space == 32
KeyBase == 48
ValBase == 64
BadByte == 255

KeyByte(c) == KeyBase + c
ValByte(d) == ValBase + DescCode(d)

RECURSIVE DumpItems(_)
DumpItems(d) ==
    IF Len(d) = 0 THEN <<>>
    ELSE <<KeyByte(d[1].k), Colon, Space, ValByte(d[1].v)>>
         \o (IF Len(d) = 1 THEN <<>> ELSE <<Comma, Space>> \o DumpItems(Tail(d)))

\* json.dumps(self._stream_data_cache).encode('utf-8')
JsonDumps(d) == <<LBrace>> \o DumpItems(d) \o <<RBrace>>

\* The bytes of one base64 group of 2, 3 or 4 letters.
GroupBytes(q) ==
    LET n == q[1] * 262144 + q[2] * 4096
             + (IF Len(q) > 2 THEN q[3] * 64 ELSE 0)
             + (IF Len(q) > 3 THEN q[4] ELSE 0)
        b1 == n \div 65536
        b2 == (n \div 256) % 256
        b3 == n % 256
    IN  IF Len(q) = 2 THEN <<b1>> ELSE IF Len(q) = 3 THEN <<b1, b2>> ELSE <<b1, b2, b3>>

RECURSIVE B64Encode(_)
B64Encode(bytes) ==
    IF Len(bytes) = 0 THEN <<>>
    ELSE LET b1 == bytes[1]
             b2 == IF Len(bytes) > 1 THEN bytes[2] ELSE 0
             b3 == IF Len(bytes) > 2 THEN bytes[3] ELSE 0
             n  == b1 * 65536 + b2 * 256 + b3
             c1 == n \div 262144
             c2 == (n \div 4096) % 64
             c3 == (n \div 64) % 64
             c4 == n % 64
         IN  IF Len(bytes) = 1 THEN <<c1, c2, PadChar, PadChar>>
             ELSE IF Len(bytes) = 2 THEN <<c1, c2, c3, PadChar>>
             ELSE <<c1, c2, c3, c4>> \o B64Encode(SubSeq(bytes, 4, Len(bytes)))

\* base64.b64decode without validation: characters outside the alphabet are
\* discarded, decoding stops at a completed padding, and a group left
\* incomplete at the end raises binascii.Error.
RECURSIVE B64Scan(_, _, _, _, _)
B64Scan(s, i, q, pads, out) ==
    IF i > Len(s)
    THEN IF Len(q) = 0 THEN [ok |-> TRUE, val |-> out] ELSE [ok |-> FALSE, val |-> <<>>]
    ELSE IF s[i] = PadChar
    THEN IF Len(q) >= 2 /\ Len(q) + pads + 1 >= 4
         THEN [ok |-> TRUE, val |-> out \o GroupBytes(q)]
         ELSE B64Scan(s, i + 1, q, pads + 1, out)
    ELSE IF s[i] > 63
    THEN B64Scan(s, i + 1, q, pads, out)
    ELSE IF Len(q) = 3
    THEN B64Scan(s, i + 1, <<>>, 0, out \o GroupBytes(Append(q, s[i])))
    ELSE B64Scan(s, i + 1, Append(q, s[i]), 0, out)

B64Decode(s) == B64Scan(s, 1, <<>>, 0, <<>>)

\* bytes.decode('utf-8'): a byte that cannot start a character raises.
Utf8Decode(bytes) ==
    IF \E i \in 1..Len(bytes) : bytes[i] >= 128
    THEN [ok |-> FALSE, val |-> <<>>]
    ELSE [ok |-> TRUE, val |-> bytes]

IsKeyByte(b) == b > KeyBase /\ b <= KeyBase + 9
IsValByte(b) == b > ValBase /\ b <= ValBase + Len(DescList)

\* The members of an object, from the key at t[i] on; a repeated key keeps its
\* first place and takes the last value, as a Python dict does.
RECURSIVE ParseMembers(_, _, _)
ParseMembers(t, i, acc) ==
    IF i + 3 > Len(t) THEN [ok |-> FALSE, val |-> <<>>]
    ELSE IF ~(IsKeyByte(t[i]) /\ t[i + 1] = Colon /\ IsValByte(t[i + 2]))
    THEN [ok |-> FALSE, val |-> <<>>]
    ELSE LET acc2 == DictSet(acc, t[i] - KeyBase, DescList[t[i + 2] - ValBase])
         IN  IF t[i + 3] = RBrace
             THEN IF i + 3 = Len(t) THEN [ok |-> TRUE, val |-> acc2]
                  ELSE [ok |-> FALSE, val |-> <<>>]
             ELSE IF t[i + 3] = Comma THEN ParseMembers(t, i + 4, acc2)
             ELSE [ok |-> FALSE, val |-> <<>>]

\* json.loads of an object document; whitespace between tokens is skipped.
JsonLoads(text) ==
    LET t == SelectSeq(text, LAMBDA b : b # Space)
    IN  IF Len(t) < 2 \/ t[1] # LBrace THEN [ok |-> FALSE, val |-> <<>>]
        ELSE IF Len(t) = 2
             THEN IF t[2] = RBrace THEN [ok |-> TRUE, val |-> <<>>]
                  ELSE [ok |-> FALSE, val |-> <<>>]
             ELSE ParseMembers(t, 2, <<>>)

\* The body of _load_cache's try block: what it returns, or that it raised.
TryLoad(f) ==
    IF ~f.exists THEN [ok |-> TRUE, val |-> <<>>]
    ELSE IF Len(f.text) = 0 THEN [ok |-> TRUE, val |-> <<>>]
    ELSE LET raw == B64Decode(f.text)
         IN  IF ~raw.ok THEN [ok |-> FALSE, val |-> <<>>]
             ELSE LET txt == Utf8Decode(raw.val)
                  IN  IF ~txt.ok THEN [ok |-> FALSE, val |-> <<>>]
                      ELSE JsonLoads(txt.val)

\* A _load_cache without its `except Exception`: the exception leaves it.
LoadPropagatesAlways(r) == TRUE

\* Whether an exception of the try block leaves _load_cache.
LoadPropagates(r) == FALSE

\* _load_cache: {} when the file is missing or empty or the try block raised.
LoadCache(f) ==
    LET r == TryLoad(f)
    IN  IF r.ok THEN [raised |-> FALSE, val |-> r.val]
        ELSE [raised |-> LoadPropagates(r), val |-> <<>>]

\* _save_cache: the file's new content.
SaveCache(d) == FileOf(B64Encode(JsonDumps(d)))

-----------------------------------------------------------------------------
(* The cache store on its own: _save_cache and _load_cache applied to any    *)
(* file content and any dict.                                                *)

\* The descriptors stored: one that lacks its URL and a resolved one.
StoreDescs == {DescList[1], DescList[2]}

\* Dicts over the channels of the model, in every insertion order.
DictsOfLen(n) ==
    {d \in [1..n -> [k : Channels, v : StoreDescs]] :
        \A i, j \in 1..n : i # j => d[i].k # d[j].k}
AllDicts == UNION {DictsOfLen(n) : n \in 0..NumChannels}

\* File contents that _load_cache cannot decode: not base64, or not JSON.
CorruptTexts ==
    {<<30>>,                                            \* one letter: not base64
     <<30, 55, 52>>,                                    \* "e30": padding missing
     <<JunkChar, JunkChar>>,                            \* no base64 letter at all
     B64Encode(<<LBrace>>),                             \* "{": not JSON
     B64Encode(<<LBrace, KeyByte(1), RBrace>>),         \* a key without a value
     B64Encode(<<LBrace, BadByte, RBrace>>)}            \* not UTF-8

\* File contents that were not written by _save_cache.
ForeignTexts ==
    CorruptTexts \cup
    {<<>>,                                              \* an empty file
     B64Encode(<<LBrace, KeyByte(1), Colon, ValBase + 2, RBrace>>), \* JSON, other spacing
     <<JunkChar>> \o B64Encode(JsonDumps(<<>>))}        \* a stray character, then "{}"
ForeignFiles == {NoFile} \cup {FileOf(t) : t \in ForeignTexts}

\* The record of the last operations on the store (history): the last three
\* operations, whether the load raised, the dict a load replaced and the file
\* a save replaced.
NoHist == [op |-> "init", prev |-> "init", prev2 |-> "init", raised |-> FALSE,
           cache0 |-> <<>>, file0 |-> NoFile]

\* self._save_cache()
CacheSave ==
    /\ file' = SaveCache(cache)
    /\ hist' = [op |-> "save", prev |-> hist.op, prev2 |-> hist.prev,
                raised |-> FALSE, cache0 |-> <<>>, file0 |-> file]
    /\ UNCHANGED <<cache, session, baseUrl, ctx, locks, lockObj, proc, fetch,
                   running, calls, faults>>

\* self._stream_data_cache = self._load_cache()
CacheLoad ==
    /\ cache' = LoadCache(file).val
    /\ hist' = [op |-> "load", prev |-> hist.op, prev2 |-> hist.prev,
                raised |-> LoadCache(file).raised, cache0 |-> cache, file0 |-> file]
    /\ UNCHANGED <<file, session, baseUrl, ctx, locks, lockObj, proc, fetch,
                   running, calls, faults>>

-----------------------------------------------------------------------------
(* The iframe page: _extract_auth_params_dynamic and the check of lines      *)
(* 294-314.  A page is modelled by whether a channel-key pattern matches it  *)
(* and by its candidate blobs (the matches of the pattern of line 218) in    *)
(* document order.  A blob is what b64decode, decode and json.loads make of  *)
(* it: an exception, or an object, a function from its keys to their values. *)
(* A value is a string of the characters of the persisted text above.        *)

\* lines 225-231: key_mappings, in the order of the dict
KeyMappings ==
    << [target |-> "auth_host", names |-> <<"host", "b_host", "server", "domain">>],
       [target |-> "auth_php", names |-> <<"script", "b_script", "php", "path">>],
       [target |-> "auth_ts", names |-> <<"ts", "b_ts", "timestamp", "time">>],
       [target |-> "auth_rnd", names |-> <<"rnd", "b_rnd", "random", "nonce">>],
       [target |-> "auth_sig", names |-> <<"sig", "b_sig", "signature", "sign">>] >>

Targets == {"auth_host", "auth_php", "auth_ts", "auth_rnd", "auth_sig"}

BadBlob == [ok |-> FALSE, obj |-> <<>>]

\* lines 238-242: the value is base64-decoded when that gives text, and taken
\* as it is when it does not
DecodeValue(v) ==
    LET raw == B64Decode(v)
    IN  IF raw.ok /\ Utf8Decode(raw.val).ok
        THEN [decoded |-> TRUE, val |-> Utf8Decode(raw.val).val]
        ELSE [decoded |-> FALSE, val |-> v]

\* A lookup that takes the last name of the list that is a key of the object.
LastPresent(obj, names) ==
    IF \E j \in 1..Len(names) : names[j] \in DOMAIN obj
    THEN CHOOSE j \in 1..Len(names) :
             /\ names[j] \in DOMAIN obj
             /\ \A k \in (j + 1)..Len(names) : names[k] \notin DOMAIN obj
    ELSE 0

\* A lookup that knows a target by its first name only.
FirstPresentStrict(obj, names) == IF names[1] \in DOMAIN obj THEN 1 ELSE 0

\* lines 236-237: the place of the first name of the list that is a key of the
\* object, 0 when none is
FirstPresent(obj, names) ==
    IF \E j \in 1..Len(names) : names[j] \in DOMAIN obj
    THEN CHOOSE j \in 1..Len(names) :
             /\ names[j] \in DOMAIN obj
             /\ \A k \in 1..(j - 1) : names[k] \notin DOMAIN obj
    ELSE 0

\* lines 232-248: the loop over key_mappings from its i-th item on; it stops
\* at the first target without a name in the object
RECURSIVE CollectParams(_, _, _)
CollectParams(obj, i, result) ==
    IF i > Len(KeyMappings) THEN [complete |-> TRUE, val |-> result]
    ELSE LET m == KeyMappings[i]
             j == FirstPresent(obj, m.names)
         IN  IF j = 0 THEN [complete |-> FALSE, val |-> result]
             ELSE CollectParams(obj, i + 1,
                                result @@ (m.target :> DecodeValue(obj[m.names[j]])))

\* The empty dict of line 252.
EmptyParams == <<>>

Labels(checks) == [i \in 1..Len(checks) |-> checks[i].label]

\* _extract_auth_params_dynamic, lines 217-252: the result of the first blob
\* that is complete, {} when there is none
RECURSIVE ExtractAuthParams(_)
ExtractAuthParams(js) ==
    IF Len(js) = 0 THEN EmptyParams
    ELSE LET blob == Head(js)
             r == CollectParams(blob.obj, 1, EmptyParams)
         IN  IF blob.ok /\ r.complete THEN r.val ELSE ExtractAuthParams(Tail(js))

\* `not x` for the value params.get(target): absent, or an empty string
Falsy(params, target) == target \notin DOMAIN params \/ Len(params[target].val) = 0

\* lines 302-311, in their order
ParamChecks ==
    << [target |-> "auth_ts", label |-> "auth_ts (timestamp)"],
       [target |-> "auth_rnd", label |-> "auth_rnd (random)"],
       [target |-> "auth_sig", label |-> "auth_sig (signature)"],
       [target |-> "auth_host", label |-> "auth_host (host)"],
       [target |-> "auth_php", label |-> "auth_php (script)"] >>

\* A check that reports the first missing parameter only.
MissingFirstOnly(has_channel_key, params) ==
    IF ~has_channel_key THEN <<"channel_key">>
    ELSE SubSeq(Labels(SelectSeq(ParamChecks, LAMBDA c : Falsy(params, c.target))), 1, 1)

\* lines 300-311: missing_params
MissingParams(has_channel_key, params) ==
    (IF ~has_channel_key THEN <<"channel_key">> ELSE <<>>)
        \o Labels(SelectSeq(ParamChecks, LAMBDA c : Falsy(params, c.target)))

\* lines 286-327: what the page leads to, the ExtractorError of line 314 or
\* the auth request
PageCheck(has_channel_key, js) ==
    LET params == ExtractAuthParams(js)
        missing_params == MissingParams(has_channel_key, params)
    IN  [params |-> params,
         missing |-> missing_params,
         error |-> IF Len(missing_params) > 0
                   THEN <<"Missing params", missing_params>> ELSE <<>>,
         request |-> IF Len(missing_params) > 0 THEN "none" ELSE "auth"]

\* The object in which each target goes by the name at place pick[i] of its
\* list (0: by none), with values of one style: base64 of a text, a text that
\* is not base64, or base64 of a text with the timestamp left empty.
PickedBlob(pick, style) ==
    LET at == {i \in 1..Len(KeyMappings) : pick[i] > 0}
        idx(n) == CHOOSE i \in at : KeyMappings[i].names[pick[i]] = n
        value(i) == IF style = "plain" THEN <<JunkChar, i>>
                    ELSE IF style = "no_ts" /\ KeyMappings[i].target = "auth_ts" THEN <<>>
                    ELSE B64Encode(<<KeyBase + i>>)
    IN  [ok |-> TRUE,
         obj |-> [n \in {KeyMappings[i].names[pick[i]] : i \in at} |-> value(idx(n))]]

\* The blob that names every target by its first name.
PlainBlob(style) == PickedBlob([i \in 1..Len(KeyMappings) |-> 1], style)

\* The styles of a blob's values.
Styles == {"encoded", "plain", "no_ts"}

\* The blobs with values of these styles: one that does not decode, and one
\* for every choice of names.
Blobs(styles) ==
    {BadBlob} \cup
    {PickedBlob(pick, style) :
        pick \in {f \in [1..Len(KeyMappings) -> 0..4] :
                     \A i \in 1..Len(KeyMappings) : f[i] <= Len(KeyMappings[i].names)},
        style \in styles}

\* Pages of one blob, and of two with a blob that is skipped or shadowed.
Pages(blobs) ==
    {<<>>}
        \cup {<<b>> : b \in blobs}
        \cup {<<BadBlob, b>> : b \in blobs}
        \cup {<<b, PlainBlob("encoded")>> : b \in blobs}

-----------------------------------------------------------------------------
(* Input URLs.  A URL is modelled by the pattern of extract_channel_id's     *)
(* ordered list that it matches first (0: none matches) and the digits that  *)
(* pattern captures.                                                         *)

UpperCase == <<"A", "B", "C", "D", "E", "F", "G", "H", "I", "J", "K", "L", "M",
               "N", "O", "P", "Q", "R", "S", "T", "U", "V", "W", "X", "Y", "Z">>
LowerCase == <<"a", "b", "c", "d", "e", "f", "g", "h", "i", "j", "k", "l", "m",
               "n", "o", "p", "q", "r", "s", "t", "u", "v", "w", "x", "y", "z">>
DigitChars == {"0", "1", "2", "3", "4", "5", "6", "7", "8", "9"}

\* re.IGNORECASE: two characters match when their lower cases are the same.
Lower(ch) ==
    IF \E i \in 1..Len(UpperCase) : UpperCase[i] = ch
    THEN LowerCase[CHOOSE i \in 1..Len(UpperCase) : UpperCase[i] = ch]
    ELSE ch

\* The literal text s stands in u at place i.
LitAt(s, u, i) ==
    /\ i + Len(s) - 1 <= Len(u)
    /\ \A k \in 1..Len(s) : Lower(u[i + k - 1]) = Lower(s[k])

\* The length of the run of digits of u that starts at place i.
DigitRun(u, i) ==
    IF i > Len(u) \/ u[i] \notin DigitChars THEN 0
    ELSE (CHOOSE j \in i..Len(u) :
             /\ \A k \in i..j : u[k] \in DigitChars
             /\ (j = Len(u) \/ u[j + 1] \notin DigitChars)) - i + 1

NoMatch == [ok |-> FALSE, cap |-> <<>>]

\* A pattern is a sequence of items: a literal text, an alternation of
\* literal texts (the first alternative that lets the rest match is taken),
\* the group (\d+) (as many digits as let the rest match), or '$' (the end
\* of the text, or the place before a newline that ends it).  The items of
\* the pattern from the k-th on are matched against u from place i on.
RECURSIVE MatchFrom(_, _, _, _, _)
MatchFrom(pat, k, u, i, cap) ==
    IF k > Len(pat) THEN [ok |-> TRUE, cap |-> cap]
    ELSE LET item == pat[k]
         IN  IF item.t = "lit"
             THEN IF LitAt(item.s, u, i)
                  THEN MatchFrom(pat, k + 1, u, i + Len(item.s), cap)
                  ELSE NoMatch
             ELSE IF item.t = "alt"
             THEN LET hits == {j \in 1..Len(item.ss) :
                                  /\ LitAt(item.ss[j], u, i)
                                  /\ MatchFrom(pat, k + 1, u, i + Len(item.ss[j]), cap).ok}
                  IN  IF hits = {} THEN NoMatch
                      ELSE LET j == CHOOSE h \in hits : \A o \in hits : h <= o
                           IN  MatchFrom(pat, k + 1, u, i + Len(item.ss[j]), cap)
             ELSE IF item.t = "digits"
             THEN LET lens == {n \in 1..DigitRun(u, i) :
                                  MatchFrom(pat, k + 1, u, i + n,
                                            SubSeq(u, i, i + n - 1)).ok}
                  IN  IF lens = {} THEN NoMatch
                      ELSE LET n == CHOOSE h \in lens : \A o \in lens : h >= o
                           IN  MatchFrom(pat, k + 1, u, i + n, SubSeq(u, i, i + n - 1))
             ELSE IF i = Len(u) + 1 \/ (i = Len(u) /\ u[i] = "\n")
                  THEN MatchFrom(pat, k + 1, u, i, cap)
                  ELSE NoMatch

\* re.search(pattern, u, re.IGNORECASE): the match that starts leftmost.
Search(pat, u) ==
    LET starts == {i \in 1..(Len(u) + 1) : MatchFrom(pat, 1, u, i, <<>>).ok}
    IN  IF starts = {} THEN NoMatch
        ELSE MatchFrom(pat, 1, u, CHOOSE i \in starts : \A o \in starts : i <= o, <<>>)

Lit(s) == [t |-> "lit", s |-> s]
Alt(ss) == [t |-> "alt", ss |-> ss]
DigitGroup == [t |-> "digits"]
EndOfText == [t |-> "end"]

\* line 209: the patterns of extract_channel_id
Patterns ==
    << <<Lit(<<"/", "p", "r", "e", "m", "i", "u", "m">>), DigitGroup, Lit(<<"/", "m", "o", "n", "o", ".", "m", "3", "u", "8">>), EndOfText>>,
       <<Lit(<<"/">>), Alt(<<<<"w", "a", "t", "c", "h">>, <<"s", "t", "r", "e", "a", "m">>, <<"c", "a", "s", "t">>, <<"p", "l", "a", "y", "e", "r">>>>), Lit(<<"/", "s", "t", "r", "e", "a", "m", "-">>),
         DigitGroup, Lit(<<".", "p", "h", "p">>)>>,
       <<Lit(<<"w", "a", "t", "c", "h", ".", "p", "h", "p", "?", "i", "d", "=">>), DigitGroup>>,
       <<Alt(<<<<"%", "2", "F">>, <<"/">>>>), Lit(<<"s", "t", "r", "e", "a", "m", "-">>), DigitGroup, Lit(<<".", "p", "h", "p">>)>>,
       <<Lit(<<"s", "t", "r", "e", "a", "m", "-">>), DigitGroup, Lit(<<".", "p", "h", "p">>)>> >>

\* line 411: the patterns of invalidate_cache_for_url
InvalidatePatterns ==
    << <<Lit(<<"/", "p", "r", "e", "m", "i", "u", "m">>), DigitGroup, Lit(<<"/", "m", "o", "n", "o", ".", "m", "3", "u", "8">>), EndOfText>>,
       <<Lit(<<"/">>), Alt(<<<<"w", "a", "t", "c", "h">>, <<"s", "t", "r", "e", "a", "m">>, <<"c", "a", "s", "t">>, <<"p", "l", "a", "y", "e", "r">>>>), Lit(<<"/", "s", "t", "r", "e", "a", "m", "-">>),
         DigitGroup, Lit(<<".", "p", "h", "p">>)>>,
       <<Lit(<<"w", "a", "t", "c", "h", ".", "p", "h", "p", "?", "i", "d", "=">>), DigitGroup>>,
       <<Alt(<<<<"%", "2", "F">>, <<"/">>>>), Lit(<<"s", "t", "r", "e", "a", "m", "-">>), DigitGroup, Lit(<<".", "p", "h", "p">>)>>,
       <<Lit(<<"s", "t", "r", "e", "a", "m", "-">>), DigitGroup, Lit(<<".", "p", "h", "p">>)>> >>

\* None: no channel id.
NoId == <<>>

\* A loop that lets a later pattern override an earlier one.
LastCapture(patterns, n, u) ==
    LET hits == {k \in n..Len(patterns) : Search(patterns[k], u).ok}
    IN  IF hits = {} THEN NoId
        ELSE Search(patterns[CHOOSE k \in hits : \A o \in hits : k >= o], u).cap

\* lines 210-214 and 413-417: the capture of the first pattern, from the n-th
\* on, that matches
RECURSIVE FirstCapture(_, _, _)
FirstCapture(patterns, n, u) ==
    IF n > Len(patterns) THEN NoId
    ELSE LET match == Search(patterns[n], u)
         IN  IF match.ok THEN match.cap ELSE FirstCapture(patterns, n + 1, u)

\* lines 208-214
ExtractChannelId(u) == FirstCapture(Patterns, 1, u)

\* lines 411-417
InvalidateChannelId(u) == FirstCapture(InvalidatePatterns, 1, u)

\* A channel id of one digit is held as its number (NoChannel for None).
ChannelNo(id) ==
    IF id = NoId THEN NoChannel
    ELSE CHOOSE c \in 1..Len(DigitStr) : <<DigitStr[c]>> = id

\* The URLs that are passed in: one without a channel id, and the watch page
\* of each channel.
NoUrl == <<>>
NoMatchUrl == <<"/", "w", "a", "t", "c", "h", ".", "p", "h", "p">>
WatchUrl(c) == <<"w", "a", "t", "c", "h", ".", "p", "h", "p", "?", "i", "d", "=">> \o <<DigitStr[c]>>
InputUrls == {NoMatchUrl} \cup {WatchUrl(c) : c \in Channels}

\* The URL of a channel's manifest on a delivery host: a URL that extract()
\* is given when a player comes back for a stream it was handed before.
DeliveryUrl(c) == <<"h", "t", "t", "p", "s", ":", "/", "/", "x", ".", "n", "e", "w", "k", "s", "o", ".", "r", "u", "/", "p", "r", "e", "m", "i", "u", "m">> \o <<DigitStr[c]>> \o <<"/", "m", "o", "n", "o", ".", "m", "3", "u", "8">>
AllUrls == InputUrls \cup {DeliveryUrl(c) : c \in Channels}

\* What extract_channel_id and the loop of invalidate_cache_for_url make of
\* each of these URLs.
ExtractIds == [u \in AllUrls |-> ChannelNo(ExtractChannelId(u))]
InvalidateIds == [u \in AllUrls |-> ChannelNo(InvalidateChannelId(u))]

\* The first place from i on where text has one of the characters of set
\* (Len(text) + 1 if it has none).
FirstOf(set, text, i) ==
    IF \E j \in i..Len(text) : text[j] \in set
    THEN CHOOSE j \in i..Len(text) :
             text[j] \in set /\ \A k \in i..(j - 1) : text[k] \notin set
    ELSE Len(text) + 1

\* urlparse(url).scheme: the text before the first ':' when it is a letter
\* followed by letters, digits, '+', '-' or '.'
SchemeEnd(url) ==
    LET i == FirstOf({":"}, url, 1)
        letters == {UpperCase[k] : k \in 1..Len(UpperCase)}
                       \cup {LowerCase[k] : k \in 1..Len(LowerCase)}
    IN  IF /\ i > 1 /\ i <= Len(url)
           /\ url[1] \in letters
           /\ \A k \in 2..(i - 1) : url[k] \in letters \cup DigitChars \cup {"+", "-", "."}
        THEN i ELSE 0
Scheme(url) == SubSeq(url, 1, SchemeEnd(url) - 1)

\* urlparse(url).netloc: what follows the "//" after the scheme, up to the
\* first '/', '?' or '#'
Netloc(url) ==
    LET rest == SubSeq(url, SchemeEnd(url) + 1, Len(url))
    IN  IF StandsAt(<<"/", "/">>, rest, 1)
        THEN SubSeq(rest, 3, FirstOf({"/", "?", "#"}, rest, 3) - 1)
        ELSE <<>>

\* Headers are functions from names to texts.
NoHeaders == <<>>
UserAgentText == <<"M", "o", "z", "i", "l", "l", "a", "/", "5", ".", "0">>

\* lines 58-60
BaseHeaders == "user-agent" :> UserAgentText

\* None: no iframe context.
NoContext == <<>>

\* A merge in which the caller's headers win over those of the delivery host.
GetHeadersCallerFirst(url, base_headers, iframe_context) ==
    IF Occurs(<<"n", "e", "w", "k", "s", "o", ".", "r", "u">>, Netloc(url))
    THEN base_headers @@ ("User-Agent" :> <<"M", "o", "z", "i", "l", "l", "a", "/", "5", ".", "0">>)
             @@ ("Referer" :> IF iframe_context # <<>> THEN iframe_context
                              ELSE Scheme(url) \o <<":", "/", "/">> \o Netloc(url))
             @@ ("Origin" :> IF iframe_context # <<>>
                             THEN <<"h", "t", "t", "p", "s", ":", "/", "/">> \o Netloc(iframe_context)
                             ELSE Scheme(url) \o <<":", "/", "/">> \o Netloc(url))
    ELSE base_headers

\* lines 115-126: _get_headers_for_url
GetHeadersForUrl(url, base_headers, iframe_context) ==
    IF Occurs(<<"n", "e", "w", "k", "s", "o", ".", "r", "u">>, Netloc(url))
    THEN IF iframe_context # NoContext
         THEN ("User-Agent" :> BaseHeaders["user-agent"])
                  @@ ("Referer" :> iframe_context)
                  @@ ("Origin" :> <<"h", "t", "t", "p", "s", ":", "/", "/">> \o Netloc(iframe_context))
                  @@ base_headers
         ELSE ("User-Agent" :> BaseHeaders["user-agent"])
                  @@ ("Referer" :> Scheme(url) \o <<":", "/", "/">> \o Netloc(url))
                  @@ ("Origin" :> Scheme(url) \o <<":", "/", "/">> \o Netloc(url))
                  @@ base_headers
    ELSE base_headers

\* lines 149-150: final_headers
FinalHeaders(url, headers, iframe_context) ==
    ("Accept-Encoding" :> <<"g", "z", "i", "p", ",", " ", "d", "e", "f", "l", "a", "t", "e", ",", " ", "b", "r", ",", " ", "z", "s", "t", "d">>)
        @@ GetHeadersForUrl(url, headers, iframe_context)

\* Header names are compared without regard to case.
SameName(a, b) == a = b \/ {a, b} = {"user-agent", "User-Agent"}

\* lines 103 and 154: session.get(url, headers=final_headers) sends the
\* session's default headers and final_headers, which replace the defaults
\* of the same name.
SentHeaders(final_headers, session_headers) ==
    LET kept == {n \in DOMAIN session_headers :
                    \A m \in DOMAIN final_headers : ~SameName(n, m)}
    IN  final_headers @@ [n \in kept |-> session_headers[n]]

\* lines 254-255: daddylive_headers
DaddyliveHeaders(baseurl) ==
    ("User-Agent" :> BaseHeaders["user-agent"])
        @@ ("Referer" :> baseurl)
        @@ ("Origin" :> Scheme(baseurl) \o <<":", "/", "/">> \o Netloc(baseurl))

\* A site origin is a text like every URL; None is the empty text.
NoBase == <<>>

\* line 194
DOMAINS == <<<<"h", "t", "t", "p", "s", ":", "/", "/", "d", "a", "d", "d", "y", "l", "i", "v", "e", ".", "s", "x", "/">>, <<"h", "t", "t", "p", "s", ":", "/", "/", "d", "l", "h", "d", ".", "d", "a", "d", "/">>>>

\* str(resp.url) of a probe: the candidate itself, or where a redirect led.
FinalUrls(base) == {base, <<"h", "t", "t", "p", "s", ":", "/", "/", "m", "o", "v", "e", "d", ".", "e", "x", "a", "m", "p", "l", "e">>}

EndsWithSlash(u) == Len(u) > 0 /\ u[Len(u)] = "/"

\* A resolver that caches the final URL as it came.
KeepUrl(final_url) == final_url

\* lines 199-200: '/' is appended to a final URL that does not end with one
NormalizeBase(final_url) ==
    IF EndsWithSlash(final_url) THEN final_url ELSE Append(final_url, "/")

\* A resolver that answers from its cache whatever force_refresh says.
UsesCachedBaseAlways(cached_base_url, force_refresh) == cached_base_url # NoBase

\* line 192: `if self._cached_base_url and not force_refresh`
UsesCachedBase(cached_base_url, force_refresh) ==
    cached_base_url # NoBase /\ ~force_refresh

\* self._iframe_context as the text it is: None, or the iframe URL.
ContextText(c) == IF c = IframeUrl THEN IframeUrlText ELSE NoContext

\* The Referer among the headers of a request ("" when there is none).
RefererOf(final_headers) ==
    IF "Referer" \in DOMAIN final_headers THEN Join(final_headers["Referer"]) ELSE ""

\* The origins resolve_base_url can return.
KnownBases == {NormalizeBase(u) : u \in FinalUrls(DOMAINS[1]) \cup FinalUrls(DOMAINS[2])}

\* lines 254-256 and 149: the Referer of the request for the watch page, for
\* each URL, origin and iframe context.
WatchReferers ==
    [u \in AllUrls, b \in KnownBases, c \in {"", IframeUrl} |->
        RefererOf(FinalHeaders(u, DaddyliveHeaders(b), ContextText(c)))]

\* lines 395 and 149: the Referer of the keep-warm request.
WarmReferers ==
    [u \in AllUrls, c \in {"", IframeUrl} |->
        RefererOf(FinalHeaders(u, NoHeaders, ContextText(c)))]

-----------------------------------------------------------------------------
(* Coroutines *)

NoRet == [kind |-> "none", val |-> NoData, err |-> ""]
OkRet(d) == [kind |-> "ok", val |-> d, err |-> ""]
ErrRet(e) == [kind |-> "err", val |-> NoData, err |-> e]

\* The message of an exception is modelled as the sequence of its parts:
\* f"{prefix}: {cause}" puts the prefix before the parts of the cause.
Wrapped(prefix, cause) == <<prefix>> \o cause

\* The message of the ExtractorError that _make_robust_request raised
\* (lines 182, 187).
RequestFailed == <<"request failed">>

\* The message of the ExtractorError that the request for player link k
\* raised: it names the link's URL.
PlayerError(k) == <<"request failed", "player link", DigitStr[k]>>

\* None: no player link has raised.
NoError == <<>>

\* lines 369-370: the handler of get_stream_data's try block
WalkError(cause) == Wrapped("Parameter extraction failed", cause)

\* An extract() without the handler of line 407: the exception leaves as it is.
ExtractErrorBare(cause) == cause

\* lines 407-408: the handler of extract()'s try block
ExtractError(cause) == Wrapped("DLHD extraction failed", cause)

NoBody == [key |-> FALSE, js |-> <<>>, lookup |-> FALSE]

IdleProc ==
    [pc |-> "idle", op |-> "none", url |-> NoUrl, ch |-> NoChannel, force |-> FALSE,
     cached |-> NoData, lock |-> 0, cand |-> 0, nlinks |-> 0, link |-> 0,
     lastErr |-> NoError, ifr |-> "", body |-> NoBody,
     \* what resolve_base_url returned and how it got it, kept up to the watch
     \* page, whose request carries it as Referer and Origin (lines 254-256)
     base |-> NoBase, origin |-> "none",
     \* the Referer of the request the call has sent to its input URL (the
     \* keep-warm request or the watch request), while that request is on
     referer |-> "",
     ret |-> NoRet,
     \* history of the call
     overlap |-> {}, hadEntry |-> FALSE, hit |-> "none",
     warm |-> "none", waited |-> FALSE, walks |-> 0,
     \* how the last request of get_stream_data that ended came out
     got |-> "none"]

\* The call's locals are dropped when it ends; its result and history stay.
Ended(q, r) ==
    [q EXCEPT !.pc = "done", !.ret = r, !.cached = NoData, !.lock = 0, !.cand = 0,
              !.nlinks = 0, !.link = 0, !.lastErr = NoError, !.ifr = "", !.body = NoBody,
              !.base = NoBase, !.origin = "none", !.referer = ""]

\* What comes back for an attempt: an HTTP response, with its status and with
\* a body that _handle_response_content can decode or not; or nothing (a
\* connection error, a disconnect, a payload error, a timeout).
Statuses == {200, 399, 400}
NetReply == [kind |-> "net", status |-> 0, decodes |-> FALSE]
Replies == [kind : {"http"}, status : Statuses, decodes : BOOLEAN] \cup {NetReply}
NoReply == [kind |-> "none", status |-> 0, decodes |-> FALSE]

NoFetch == [phase |-> "none", attempt |-> 0, retries |-> 0, delay |-> 0,
            outs |-> <<>>, slept |-> <<>>, reply |-> NoReply]

RECURSIVE Pow2(_)
Pow2(n) == IF n = 0 THEN 1 ELSE 2 * Pow2(n - 1)

\* A caller that is not inside a call makes the next one.  The callers are
\* numbered in the order of their first calls.
CanCall(p) ==
    /\ proc[p].pc \in {"idle", "done"}
    /\ \A o \in Procs : o < p => proc[o].pc # "idle"
    /\ calls < MaxCalls

-----------------------------------------------------------------------------
(* _make_robust_request.  A coroutine inside it is suspended in the GET of   *)
(* an attempt (phase "get"), in the backoff sleep of line 180 ("backoff") or *)
(* in the sleep of line 188 that follows the loop ("tail").  The request     *)
(* ends when an attempt returns the response or raises ExtractorError; the   *)
(* caller then runs on in the same step of the event loop.                   *)

\* A backoff that does not grow: asyncio.sleep(initial_delay).
BackoffDelayFlat(initial_delay, attempt) == initial_delay

\* line 180: asyncio.sleep(initial_delay * (2 ** attempt))
BackoffDelay(initial_delay, attempt) == initial_delay * Pow2(attempt)

\* A network handler that leaves the session as it is.
NetTearsDownNever(attempt, retries) == FALSE

\* line 172: the session is closed and dropped
NetTearsDown(attempt, retries) == attempt = retries - 1

\* line 179: the network handler sleeps, else (line 181) raises
NetSleeps(attempt, retries) == attempt < retries - 1

\* A general handler that swallows the exception on every attempt.
OtherRaisesNever(attempt, retries) == FALSE

\* line 186: the general handler raises, else falls out of the handler
OtherRaises(attempt, retries) == attempt = retries - 1

\* `for attempt in range(retries)`: the frame at the loop's next iteration, which
\* awaits the GET of attempt a, or, the range exhausted, the sleep of line 188.
LoopAt(fr, a) ==
    IF a < fr.retries
    THEN [fr EXCEPT !.phase = "get", !.attempt = a]
    ELSE [fr EXCEPT !.phase = "tail", !.attempt = a]

\* The call: the frame at its first suspension.
NewFetch(retries, initial_delay) ==
    LoopAt([phase |-> "none", attempt |-> 0, retries |-> retries,
            delay |-> initial_delay, outs |-> <<>>, slept |-> <<>>,
            reply |-> NoReply], 0)

\* _get_session(), called before each GET: the session is created when absent.
SessionFor(fr, s) == IF fr.phase = "get" THEN "open" ELSE s

\* The model's budget of requests that meet a failing attempt: a request that
\* has failed before can fail again.  A request made on its own is bounded by
\* its retries and spends none of it, and neither does a probe of
\* resolve_base_url that follows a failed one, nor a player link that is
\* tried after one that raised.
Unmetered(p) ==
    \/ proc[p].op = "fetch"
    \/ fetch[p].attempt > 0
    \/ proc[p].pc = "probe" /\ proc[p].cand > 1
    \/ proc[p].pc = "player" /\ proc[p].lastErr # NoError
MayFail(p) == Unmetered(p) \/ faults < MaxFaults
FaultsAfter(p) == IF Unmetered(p) THEN faults ELSE faults + 1

\* The record of a request's attempts and sleeps (history), kept for requests
\* made on their own.
Noted(p, h, x) == IF proc[p].op = "fetch" THEN Append(h, x) ELSE h

\* How an attempt can come out: the response (status below 400, body decoded);
\* a connection error, disconnect, payload error or timeout (line 171); any
\* other exception: a status of 400 or more from raise_for_status, a body
\* that does not decode, a malformed response (line 183).
Outcomes == {"ok", "net", "other"}

\* A raise_for_status that lets the first client error through.
RaisesForStatusLax(status) == status > 400

\* line 156: response.raise_for_status() raises ClientResponseError
RaisesForStatus(status) == status >= 400

\* lines 155-170 and the handler each exception reaches: how the attempt that
\* got this reply comes out.
OutcomeOf(rep) ==
    IF rep.kind = "net" THEN "net"
    ELSE IF RaisesForStatus(rep.status) THEN "other"
    ELSE IF ~rep.decodes THEN "other"
    ELSE "ok"

\* lines 159-170: the MockResponse handed to the caller
MockResponse(rep) == [status |-> rep.status]

\* The request ends with this outcome of the attempt in flight: the response is
\* returned (line 170), or the handler raises (lines 182, 187).
Ends(p, out) ==
    /\ running = NoProc
    /\ fetch[p].phase = "get"
    /\ \/ out = "ok"
       \/ out = "net" /\ MayFail(p) /\ ~NetSleeps(fetch[p].attempt, fetch[p].retries)
       \/ out = "other" /\ MayFail(p) /\ OtherRaises(fetch[p].attempt, fetch[p].retries)

\* The session a request leaves behind when it ends (lines 172-178).
SessionAfterEnd(p, out) ==
    IF out = "net" /\ NetTearsDown(fetch[p].attempt, fetch[p].retries)
    THEN "none" ELSE session

FaultsAfterEnd(p, out) == IF out = "ok" THEN faults ELSE FaultsAfter(p)

\* The request ends and the caller sends its next one.
ThenRequest(p, out, retries) ==
    /\ fetch' = [fetch EXCEPT ![p] = NewFetch(retries, DefaultDelay)]
    /\ session' = SessionFor(NewFetch(retries, DefaultDelay), SessionAfterEnd(p, out))
    /\ faults' = FaultsAfterEnd(p, out)
    /\ running' = NoProc

\* The request ends and the call with it.
ThenNothing(p, out) ==
    /\ fetch' = [fetch EXCEPT ![p] = NoFetch]
    /\ session' = SessionAfterEnd(p, out)
    /\ faults' = FaultsAfterEnd(p, out)
    /\ running' = NoProc

\* The attempt fails with a network error that is not the last attempt's
\* (lines 171-180): the coroutine sleeps the backoff delay.
RequestNetworkError(p) ==
    /\ running = NoProc
    /\ fetch[p].phase = "get"
    /\ MayFail(p)
    /\ NetSleeps(fetch[p].attempt, fetch[p].retries)
    /\ faults' = FaultsAfter(p)
    /\ session' = IF NetTearsDown(fetch[p].attempt, fetch[p].retries)
                  THEN "none" ELSE session
    /\ fetch' = [fetch EXCEPT ![p] =
           [@ EXCEPT !.phase = "backoff",
                     !.outs = Noted(p, @, "net"),
                     !.slept = Noted(p, @, [after |-> fetch[p].attempt,
                                    secs |-> BackoffDelay(fetch[p].delay,
                                                          fetch[p].attempt)])]]
    /\ UNCHANGED <<cache, file, hist, baseUrl, ctx, locks, lockObj, proc, running,
                   calls>>

\* The attempt fails with another exception and the handler does not raise
\* (lines 183-187): the loop goes on at once.
RequestOtherError(p) ==
    /\ running = NoProc
    /\ fetch[p].phase = "get"
    /\ MayFail(p)
    /\ ~OtherRaises(fetch[p].attempt, fetch[p].retries)
    /\ faults' = FaultsAfter(p)
    /\ LET fr == LoopAt([fetch[p] EXCEPT !.outs = Noted(p, @, "other")],
                        fetch[p].attempt + 1)
       IN  /\ fetch' = [fetch EXCEPT ![p] = fr]
           /\ session' = SessionFor(fr, session)
    /\ UNCHANGED <<cache, file, hist, baseUrl, ctx, locks, lockObj, proc, running,
                   calls>>

\* The backoff sleep of line 180 is over: the loop goes on.
BackoffDone(p) ==
    /\ running = NoProc
    /\ fetch[p].phase = "backoff"
    /\ fetch' = [fetch EXCEPT ![p] = LoopAt(@, @.attempt + 1)]
    /\ session' = SessionFor(LoopAt(fetch[p], fetch[p].attempt + 1), session)
    /\ UNCHANGED <<cache, file, hist, baseUrl, ctx, locks, lockObj, proc, running,
                   calls, faults>>

Transport(p) ==
    \/ RequestNetworkError(p)
    \/ RequestOtherError(p)
    \/ BackoffDone(p)

-----------------------------------------------------------------------------
(* The transport on its own: a coroutine that calls                          *)
(* _make_robust_request(url, retries=r, initial_delay=d) and nothing else.   *)

FetchCall(p, r, d) ==
    /\ running = NoProc
    /\ CanCall(p)
    /\ calls' = calls + 1
    /\ proc' = [proc EXCEPT ![p] = [IdleProc EXCEPT !.pc = "fetch", !.op = "fetch"]]
    /\ fetch' = [fetch EXCEPT ![p] = NewFetch(r, d)]
    /\ session' = SessionFor(NewFetch(r, d), session)
    /\ UNCHANGED <<cache, file, hist, baseUrl, ctx, locks, lockObj, running, faults>>

\* The last attempt got its reply: the caller has its response, or the
\* ExtractorError.  The frame is kept as the record of what the request did.
FetchCallDone(p, rep) ==
    LET out == OutcomeOf(rep)
    IN  /\ proc[p].pc = "fetch"
        /\ Ends(p, out)
        /\ proc' = [proc EXCEPT ![p] =
                       Ended(@, IF out = "ok"
                                THEN [kind |-> "response", val |-> MockResponse(rep),
                                      err |-> ""]
                                ELSE ErrRet("ExtractorError"))]
        /\ fetch' = [fetch EXCEPT ![p] =
                        [@ EXCEPT !.phase = IF out = "ok" THEN "returned" ELSE "raised",
                                  !.outs = Noted(p, @, out),
                                  !.reply = rep]]
        /\ session' = SessionAfterEnd(p, out)
        /\ faults' = FaultsAfterEnd(p, out)
        /\ running' = NoProc
        /\ UNCHANGED <<cache, file, hist, baseUrl, ctx, locks, lockObj, calls>>

\* close(), lines 422-428: the session is closed if it is open, and dropped.
\* (A session that another coroutine creates while close() awaits
\* session.close() is dropped by line 428 all the same.)
CloseCall(p) ==
    /\ running = NoProc
    /\ CanCall(p)
    /\ calls' = calls + 1
    /\ proc' = [proc EXCEPT ![p] = Ended([IdleProc EXCEPT !.op = "close"], NoRet)]
    /\ fetch' = [fetch EXCEPT ![p] = NoFetch]
    /\ session' = "none"
    /\ UNCHANGED <<cache, file, hist, baseUrl, ctx, locks, lockObj, running, faults>>

-----------------------------------------------------------------------------
(* asyncio.Lock.  acquire() takes a free lock that nobody waits for without  *)
(* suspending; otherwise the caller queues behind the others.  release()     *)
(* frees the lock and completes the future of the first waiter, which takes  *)
(* the lock when the event loop resumes it.                                  *)

NewLock == [locked |-> FALSE, waiters |-> <<>>, woken |-> FALSE]

Acquirable(l) == ~l.locked /\ Len(l.waiters) = 0
\* A release() that frees the lock and wakes no waiter.
ReleasedUnheard(l) == [l EXCEPT !.locked = FALSE]

\* Lock.release(): the lock is free and its first waiter, if any, is woken.
Released(l) == [l EXCEPT !.locked = FALSE, !.woken = Len(l.waiters) > 0]



\* `async with lock` is left, by return or by exception.
ReleaseLock(lo, id) == [lo EXCEPT ![id] = Released(@)]

-----------------------------------------------------------------------------
(* extract() *)

\* line 376: the cache is consulted before the gate
ChecksCache(force_refresh, d, c) == ~force_refresh /\ DictHas(d, c)

\* A gate that does not look at the cache again.
RecheckNever(d, c) == FALSE

\* line 403: the cache is consulted again once the lock is held
RecheckHit(d, c) == DictHas(d, c)

\* A lookup that makes a new asyncio.Lock() for every call.
LockAbsentAlways(lk, c) == TRUE

\* line 399: `channel_id not in self._extraction_locks`
LockAbsent(lk, c) == lk[c] = 0

\* lines 399-401: the lock map after the lookup that creates the entry if absent
LockEntry(lk, lo, c) == IF LockAbsent(lk, c) THEN Len(lo) + 1 ELSE lk[c]
LocksAfter(lk, lo, c) == [lk EXCEPT ![c] = LockEntry(lk, lo, c)]
LockObjsAfter(lk, lo, c) == IF LockAbsent(lk, c) THEN Append(lo, NewLock) ELSE lo

\* A branch that forgets the `del`.
CacheKept(d, c) == d

\* lines 390-392 and 330-331, 419-420: the entry is deleted if present
CacheAfterDelete(d, c) == IF DictHas(d, c) THEN DictDel(d, c) ELSE d

\* line 392: the file after the stale branch
FileAfterStale(d, f) == SaveCache(d)

\* lines 366-367: the file after the resolved descriptor is stored
FileAfterStore(d, f) == SaveCache(d)

\* lines 330-331: the file after the entry is dropped on an auth failure
FileAfterAuthDrop(d, f) == SaveCache(d)

\* An invalidation that forgets self._save_cache().
FileKept(d, f) == f

\* lines 419-420: the file after invalidate_cache_for_url deleted an entry
FileAfterInvalidate(d, f) == SaveCache(d)

\* A keep-warm request outside any try block: its failure leaves extract().
KeepWarmResultStrict(out, cached_data) ==
    IF out = "ok" THEN OkRet(cached_data) ELSE ErrRet(ExtractError(RequestFailed))

\* lines 394-398: what a valid hit returns once the keep-warm request is over
KeepWarmResult(out, cached_data) == OkRet(cached_data)

\* An extract() that goes on without a channel id.
NoChannelIdNever(channel_id) == FALSE

\* line 374: `if not channel_id`
NoChannelId(channel_id) == channel_id = NoChannel

InFlight(q) == q.pc \notin {"idle", "done"}

\* extract(url, force_refresh) is called: lines 373-384, up to the HEAD probe or
\* to the gate.
ExtractCall(p, u, f) ==
    /\ running = NoProc
    /\ CanCall(p)
    /\ calls' = calls + 1
    /\ LET c == ExtractIds[u]
           q == [IdleProc EXCEPT !.op = "extract", !.url = u, !.ch = c, !.force = f,
                     !.hadEntry = c # NoChannel /\ DictHas(cache, c),
                     !.overlap = {o \in Procs \ {p} :
                                    InFlight(proc[o]) /\ proc[o].op = "extract"
                                    /\ proc[o].ch = c}]
       IN  IF NoChannelId(c)
           THEN /\ proc' = [proc EXCEPT ![p] =
                               Ended(q, ErrRet(ExtractError(
                                            <<"Unable to extract channel ID">>)))]
                /\ running' = NoProc
           ELSE IF ChecksCache(f, cache, c)
           THEN LET cached_data == DictGet(cache, c)
                IN  IF cached_data.destination_url # ""
                    THEN /\ proc' = [proc EXCEPT ![p] =
                                [q EXCEPT !.pc = "head", !.cached = cached_data]]
                         /\ running' = NoProc
                    ELSE /\ proc' = [proc EXCEPT ![p] =
                                [q EXCEPT !.pc = "stale", !.cached = cached_data]]
                         /\ running' = p
           ELSE /\ proc' = [proc EXCEPT ![p] = [q EXCEPT !.pc = "gate"]]
                /\ running' = p
    /\ UNCHANGED <<cache, file, hist, session, baseUrl, ctx, locks, lockObj, fetch,
                   faults>>

\* The HEAD probe of the cached manifest URL is over (lines 383-388): status
\* 200, another status, or an exception.  A valid entry goes on to the
\* keep-warm request of line 395.
HeadProbeDone(p, outcome) ==
    /\ running = NoProc
    /\ proc[p].pc = "head"
    /\ IF outcome = "200"
       THEN /\ proc' = [proc EXCEPT ![p] =
                           [@ EXCEPT !.pc = "warm", !.hit = "valid",
                                     !.referer = WarmReferers[proc[p].url, ctx]]]
            /\ fetch' = [fetch EXCEPT ![p] = NewFetch(1, DefaultDelay)]
            /\ session' = SessionFor(NewFetch(1, DefaultDelay), session)
            /\ running' = NoProc
       ELSE /\ proc' = [proc EXCEPT ![p] = [@ EXCEPT !.pc = "stale"]]
            /\ running' = p
            /\ UNCHANGED <<fetch, session>>
    /\ UNCHANGED <<cache, file, hist, baseUrl, ctx, locks, lockObj, calls, faults>>

\* Lines 389-392: the entry is not valid.
StaleInvalidate(p) ==
    /\ running = p
    /\ proc[p].pc = "stale"
    /\ cache' = CacheAfterDelete(cache, proc[p].ch)
    /\ file' = FileAfterStale(cache', file)
    /\ proc' = [proc EXCEPT ![p] = [@ EXCEPT !.pc = "gate", !.hit = "stale"]]
    /\ UNCHANGED <<hist, session, baseUrl, ctx, locks, lockObj, fetch, running,
                   calls, faults>>

\* Lines 394-398: the keep-warm request is over, whichever way; the entry read
\* at line 377 is returned.
KeepWarmDone(p, out) ==
    /\ proc[p].pc = "warm"
    /\ Ends(p, out)
    /\ proc' = [proc EXCEPT ![p] =
                   Ended([@ EXCEPT !.warm = IF out = "ok" THEN "ok" ELSE "failed"],
                         KeepWarmResult(out, proc[p].cached))]
    /\ ThenNothing(p, out)
    /\ UNCHANGED <<cache, file, hist, baseUrl, ctx, locks, lockObj, calls>>

\* Lines 399-402: the channel's lock is looked up, created if absent, and
\* acquired, at once or after waiting.
Gate(p) ==
    /\ running = p
    /\ proc[p].pc = "gate"
    /\ LET c  == proc[p].ch
           id == LockEntry(locks, lockObj, c)
           lo == LockObjsAfter(locks, lockObj, c)
       IN  /\ locks' = LocksAfter(locks, lockObj, c)
           /\ IF Acquirable(lo[id])
              THEN /\ lockObj' = [lo EXCEPT ![id].locked = TRUE]
                   /\ proc' = [proc EXCEPT ![p] = [@ EXCEPT !.pc = "locked", !.lock = id]]
                   /\ running' = p
              ELSE /\ lockObj' = [lo EXCEPT ![id].waiters = Append(@, p)]
                   /\ proc' = [proc EXCEPT ![p] = [@ EXCEPT !.pc = "wait", !.lock = id,
                                                            !.waited = TRUE]]
                   /\ running' = NoProc
    /\ UNCHANGED <<cache, file, hist, session, baseUrl, ctx, fetch, calls, faults>>

\* The waiter whose future release() completed is resumed and takes the lock.
LockGranted(p) ==
    /\ running = NoProc
    /\ proc[p].pc = "wait"
    /\ LET l == lockObj[proc[p].lock]
       IN  /\ l.woken
           /\ Len(l.waiters) > 0
           /\ Head(l.waiters) = p
           /\ lockObj' = [lockObj EXCEPT ![proc[p].lock] =
                             [locked |-> TRUE, waiters |-> Tail(l.waiters),
                              woken |-> FALSE]]
    /\ proc' = [proc EXCEPT ![p] = [@ EXCEPT !.pc = "locked"]]
    /\ running' = p
    /\ UNCHANGED <<cache, file, hist, session, baseUrl, ctx, locks, fetch, calls,
                   faults>>

\* get_stream_data is entered (lines 254-256): the watch page is requested.
WalkStarted(q) == [q EXCEPT !.pc = "watch", !.walks = @ + 1, !.nlinks = 0, !.link = 0,
                            !.lastErr = NoError, !.ifr = "", !.body = NoBody,
                            !.referer = IF q.base = NoBase THEN ""
                                        ELSE WatchReferers[q.url, q.base, ctx]]

\* Lines 403-406 with the lock held: the cache is checked again; on a miss
\* resolve_base_url answers from its cache (lines 192-193) or probes the first
\* candidate (line 197).
Locked(p) ==
    /\ running = p
    /\ proc[p].pc = "locked"
    /\ IF RecheckHit(cache, proc[p].ch)
       THEN /\ proc' = [proc EXCEPT ![p] = Ended(@, OkRet(DictGet(cache, proc[p].ch)))]
            /\ lockObj' = ReleaseLock(lockObj, proc[p].lock)
            /\ running' = NoProc
            /\ UNCHANGED <<fetch, session>>
       ELSE IF UsesCachedBase(baseUrl, proc[p].force)
       THEN /\ proc' = [proc EXCEPT ![p] =
                           WalkStarted([@ EXCEPT !.base = baseUrl, !.origin = "cached"])]
            /\ fetch' = [fetch EXCEPT ![p] = NewFetch(DefaultRetries, DefaultDelay)]
            /\ session' = SessionFor(NewFetch(DefaultRetries, DefaultDelay), session)
            /\ running' = NoProc
            /\ UNCHANGED lockObj
       ELSE /\ proc' = [proc EXCEPT ![p] = [@ EXCEPT !.pc = "probe", !.cand = 1]]
            /\ fetch' = [fetch EXCEPT ![p] = NewFetch(1, DefaultDelay)]
            /\ session' = SessionFor(NewFetch(1, DefaultDelay), session)
            /\ running' = NoProc
            /\ UNCHANGED lockObj
    /\ UNCHANGED <<cache, file, hist, baseUrl, ctx, locks, calls, faults>>

\* resolve_base_url, lines 195-206: a probe is over.  The first candidate that
\* answers is cached and returned; when none does, the first candidate is.
ProbeDone(p, out, final_url) ==
    /\ proc[p].pc = "probe"
    /\ Ends(p, out)
    /\ final_url \in FinalUrls(DOMAINS[proc[p].cand])
    /\ out # "ok" => final_url = DOMAINS[proc[p].cand]
    /\ IF out # "ok" /\ proc[p].cand < Len(DOMAINS)
       THEN /\ proc' = [proc EXCEPT ![p] = [@ EXCEPT !.cand = @ + 1]]
            /\ ThenRequest(p, out, 1)
            /\ UNCHANGED baseUrl
       ELSE /\ baseUrl' = IF out = "ok" THEN NormalizeBase(final_url) ELSE DOMAINS[1]
            /\ proc' = [proc EXCEPT ![p] =
                           WalkStarted([@ EXCEPT !.cand = 0, !.base = baseUrl',
                                                 !.origin = IF out = "ok" THEN "probed"
                                                            ELSE "fallback"])]
            /\ ThenRequest(p, out, DefaultRetries)
    /\ UNCHANGED <<cache, file, hist, ctx, locks, lockObj, calls>>

\* How a request of get_stream_data came out for its caller: with a response,
\* or with the ExtractorError of lines 182 and 187.
Got(out) == IF out = "ok" THEN "ok" ELSE "raised"

\* An exception leaves get_stream_data and extract(): the lock is released by
\* `async with`, and line 408 raises ExtractorError.
Fails(p, out, e) ==
    /\ proc' = [proc EXCEPT ![p] = Ended([@ EXCEPT !.got = Got(out)], ErrRet(ExtractError(e)))]
    /\ lockObj' = ReleaseLock(lockObj, proc[p].lock)
    /\ ThenNothing(p, out)
    /\ UNCHANGED <<cache, file, hist, baseUrl, ctx, locks, calls>>

\* The next player link is requested (lines 263-268).
NextPlayer(p, out, q) ==
    /\ proc' = [proc EXCEPT ![p] = [q EXCEPT !.pc = "player", !.link = @ + 1,
                                             !.got = Got(out)]]
    /\ ThenRequest(p, out, DefaultRetries)
    /\ UNCHANGED <<cache, file, hist, baseUrl, ctx, locks, lockObj, calls>>

\* A walk that goes on to the player pages however many there are.
NoLinksNever(n) == FALSE

\* line 259: `if not player_links`
NoLinks(n) == n = 0

\* Lines 256-260: the watch page, with n player links in it.
WatchDone(p, out, n) ==
    /\ proc[p].pc = "watch"
    /\ Ends(p, out)
    /\ IF out # "ok" THEN n = 0 /\ Fails(p, out, RequestFailed)
       ELSE IF NoLinks(n) THEN Fails(p, out, <<"No player links found">>)
       ELSE NextPlayer(p, out, [proc[p] EXCEPT !.nlinks = n, !.base = NoBase,
                                               !.origin = "none", !.referer = ""])

\* A loop that gives up after the link it has tried.
MoreLinksNever(link, nlinks) == FALSE

\* line 263: `for player_url in player_links` has a link left
MoreLinks(link, nlinks) == link < nlinks

\* A handler that keeps the first error it saw.
FirstPlayerError(last_player_error, e) ==
    IF last_player_error # NoError THEN last_player_error ELSE e

\* lines 276-277: `except Exception as e: last_player_error = e`
LastPlayerError(last_player_error, e) == e

\* Lines 263-284: a player page, with or without an iframe in it.  A page that
\* fails or has none lets the next link be tried; the first iframe found is
\* recorded as the iframe context and requested.
PlayerDone(p, out, has_iframe) ==
    /\ proc[p].pc = "player"
    /\ Ends(p, out)
    /\ IF out = "ok" /\ has_iframe
       THEN /\ proc' = [proc EXCEPT ![p] = [@ EXCEPT !.pc = "iframe", !.ifr = IframeUrl,
                                                     !.nlinks = 0, !.link = 0,
                                                     !.lastErr = NoError, !.got = Got(out)]]
            /\ ctx' = IframeUrl
            /\ ThenRequest(p, out, DefaultRetries)
            /\ UNCHANGED <<cache, file, hist, baseUrl, locks, lockObj, calls>>
       ELSE /\ out # "ok" => ~has_iframe
            /\ LET q == [proc[p] EXCEPT
                            !.lastErr = IF out # "ok"
                                        THEN LastPlayerError(@, PlayerError(proc[p].link))
                                        ELSE @]
               IN  IF MoreLinks(q.link, q.nlinks) THEN NextPlayer(p, out, q)
                   ELSE IF q.lastErr # NoError
                   THEN Fails(p, out, Wrapped("All player links failed", q.lastErr))
                   ELSE Fails(p, out, <<"No iframe found">>)

\* The iframe pages of the walk: with or without the channel key, with a
\* complete blob or with none, with or without the path of the server lookup.
SamplePages == {<<PlainBlob("plain")>>, <<BadBlob>>}
IframeBodies == [key : BOOLEAN, js : SamplePages, lookup : BOOLEAN]

\* Lines 284-327: the iframe page.  With the channel key and all five auth
\* parameters found, the auth request is sent (one attempt).
IframeDone(p, out, body) ==
    /\ proc[p].pc = "iframe"
    /\ Ends(p, out)
    /\ IF out # "ok" THEN body = NoBody /\ Fails(p, out, RequestFailed)
       ELSE IF PageCheck(body.key, body.js).request # "auth"
       THEN Fails(p, out, WalkError(PageCheck(body.key, body.js).error))
       ELSE /\ proc' = [proc EXCEPT ![p] = [@ EXCEPT !.pc = "auth", !.body = body,
                                                     !.got = Got(out)]]
            /\ ThenRequest(p, out, 1)
            /\ UNCHANGED <<cache, file, hist, baseUrl, ctx, locks, lockObj, calls>>

\* A handler that enters get_stream_data again whatever the cache holds.
AuthRetriesAlways(d, c) == TRUE

\* line 329: `if channel_id in self._stream_data_cache`
AuthRetries(d, c) == DictHas(d, c)

\* A walk that goes on whatever became of the auth request.
AuthRaisedNever(out) == FALSE

\* lines 326-328: the auth request raised (`except Exception as auth_error`)
AuthRaised(out) == out # "ok"

\* Lines 326-346: the auth request is over.  When it failed and the channel is
\* in the cache, the entry is deleted, the cache saved and get_stream_data
\* entered again; when it failed otherwise, the resolution fails.  When it
\* succeeded the server lookup is requested, if the page names its path.
AuthDone(p, out) ==
    /\ proc[p].pc = "auth"
    /\ Ends(p, out)
    /\ IF AuthRaised(out)
       THEN IF AuthRetries(cache, proc[p].ch)
            THEN /\ cache' = CacheAfterDelete(cache, proc[p].ch)
                 /\ file' = FileAfterAuthDrop(cache', file)
                 /\ proc' = [proc EXCEPT ![p] = WalkStarted([@ EXCEPT !.got = Got(out)])]
                 /\ ThenRequest(p, out, DefaultRetries)
                 /\ UNCHANGED <<hist, baseUrl, ctx, locks, lockObj, calls>>
            ELSE Fails(p, out, WalkError(Wrapped("Auth failed", RequestFailed)))
       ELSE IF ~proc[p].body.lookup
       THEN Fails(p, out, WalkError(<<"Unable to extract server lookup URL">>))
       ELSE /\ proc' = [proc EXCEPT ![p] = [@ EXCEPT !.pc = "lookup", !.body = NoBody,
                                                     !.got = Got(out)]]
            /\ ThenRequest(p, out, DefaultRetries)
            /\ UNCHANGED <<cache, file, hist, baseUrl, ctx, locks, lockObj, calls>>

NoServerKey == <<>>

\* Lines 346-368: the lookup response, with or without a server_key.  The
\* descriptor is built, stored in the cache, the cache saved, and returned.
LookupDone(p, out, server_key) ==
    /\ proc[p].pc = "lookup"
    /\ Ends(p, out)
    /\ IF out # "ok"
       THEN /\ server_key = NoServerKey
            /\ Fails(p, out, WalkError(Wrapped("Server lookup failed", RequestFailed)))
       ELSE IF server_key = NoServerKey
       THEN Fails(p, out, WalkError(Wrapped("Server lookup failed",
                                            <<"No server_key in lookup response">>)))
       ELSE LET result_data == ResultData(server_key, ChannelKey(proc[p].ch),
                                          proc[p].ifr, IframeOrigin)
            IN  /\ cache' = DictSet(cache, proc[p].ch, result_data)
                /\ file' = FileAfterStore(cache', file)
                /\ proc' = [proc EXCEPT ![p] = Ended([@ EXCEPT !.got = Got(out)],
                                                     OkRet(result_data))]
                /\ lockObj' = ReleaseLock(lockObj, proc[p].lock)
                /\ ThenNothing(p, out)
                /\ UNCHANGED <<hist, baseUrl, ctx, locks, calls>>

\* An invalidation that deletes and saves whatever the URL and the cache hold.
InvalidateHitsAlways(channel_id, d) == TRUE

\* line 418: `if channel_id and channel_id in self._stream_data_cache`
InvalidateHits(channel_id, d) == channel_id # NoChannel /\ DictHas(d, channel_id)

\* invalidate_cache_for_url(url), lines 410-420: it never suspends.
InvalidateCall(p, u) ==
    /\ running = NoProc
    /\ CanCall(p)
    /\ calls' = calls + 1
    /\ LET c == InvalidateIds[u]
       IN  /\ IF InvalidateHits(c, cache)
              THEN /\ cache' = CacheAfterDelete(cache, c)
                   /\ file' = FileAfterInvalidate(cache', file)
              ELSE UNCHANGED <<cache, file>>
           /\ proc' = [proc EXCEPT ![p] =
                          Ended([IdleProc EXCEPT !.op = "invalidate", !.url = u, !.ch = c,
                                     !.hadEntry = c # NoChannel /\ DictHas(cache, c)],
                                NoRet)]
    /\ UNCHANGED <<hist, session, baseUrl, ctx, locks, lockObj, fetch, running, faults>>

-----------------------------------------------------------------------------
(* The extractor after __init__ (lines 56-77): the cache is what _load_cache *)
(* makes of the file that is there.                                          *)

\* The descriptor an earlier run resolved for a channel.
OldData(c) == ResultData(ServerKeyList[1], ChannelKey(c), IframeUrl, IframeOrigin)

RECURSIVE OldDicts(_)
OldDicts(n) ==
    IF n = 0 THEN {<<>>}
    ELSE OldDicts(n - 1) \cup {Append(d, [k |-> n, v |-> OldData(n)]) : d \in OldDicts(n - 1)}

\* The dicts earlier runs can have saved, and one with an entry that lacks its URL.
InitDicts ==
    OldDicts(NumChannels)
        \cup {<<[k |-> 1, v |-> NoUrlData]>> \o SelectSeq(d, LAMBDA e : e.k # 1) :
                 d \in OldDicts(NumChannels)}

InitFiles == {NoFile, FileOf(<<30>>)} \cup {SaveCache(d) : d \in InitDicts}

Constructed ==
    /\ cache = LoadCache(file).val
    /\ hist = NoHist
    /\ session = "none"
    /\ baseUrl = NoBase
    /\ ctx = ""
    /\ locks = [c \in Channels |-> 0]
    /\ lockObj = <<>>
    /\ proc = [p \in Procs |-> IdleProc]
    /\ fetch = [p \in Procs |-> NoFetch]
    /\ running = NoProc
    /\ calls = 0
    /\ faults = 0

Init ==
    /\ file \in InitFiles
    /\ Constructed

\* The steps of the cache-hit branch of extract(), lines 376-398.
CacheHit(p) ==
    \/ \E o \in {"200", "other", "raise"} : HeadProbeDone(p, o)
    \/ StaleInvalidate(p)
    \/ \E out \in Outcomes : KeepWarmDone(p, out)

\* The requests of resolve_base_url and get_stream_data.
Walk(p) ==
    \/ \E out \in Outcomes, u \in FinalUrls(DOMAINS[1]) \cup FinalUrls(DOMAINS[2]) :
           ProbeDone(p, out, u)
    \/ \E out \in Outcomes, n \in 0..MaxLinks : WatchDone(p, out, n)
    \/ \E out \in Outcomes, b \in BOOLEAN : PlayerDone(p, out, b)
    \/ \E out \in Outcomes, body \in IframeBodies \cup {NoBody} : IframeDone(p, out, body)
    \/ \E out \in Outcomes : AuthDone(p, out)
    \/ \E out \in Outcomes, k \in ServerKeys \cup {NoServerKey} : LookupDone(p, out, k)
    \/ Transport(p)

\* The steps of the gated resolution, lines 399-406.
Resolve(p) ==
    \/ Gate(p)
    \/ LockGranted(p)
    \/ Locked(p)
    \/ Walk(p)

Next ==
    \E p \in Procs :
        \/ \E u \in InputUrls, f \in BOOLEAN : ExtractCall(p, u, f)
        \/ \E u \in InputUrls : InvalidateCall(p, u)
        \/ CacheHit(p)
        \/ Resolve(p)

Spec == Init /\ [][Next]_vars

\* One extract() call on a new extractor, with or without a cache file: the
\* steps of a call when nothing else runs between them.
OnceNext ==
    \/ \E u \in InputUrls, f \in BOOLEAN : proc[1].pc = "idle" /\ ExtractCall(1, u, f)
    \/ CacheHit(1)
    \/ Gate(1)
    \/ Locked(1)
    \/ Walk(1)

SpecOnce == Init /\ [][OnceNext]_vars

\* Two callers that each call extract() once, for the same channel, which no
\* cache file knows.
SingleFlightInit ==
    /\ file \in {NoFile, FileOf(<<30>>), SaveCache(<<>>)}
    /\ Constructed

SingleFlightNext ==
    \E p \in Procs :
        \/ \E f \in BOOLEAN : proc[p].pc = "idle" /\ ExtractCall(p, WatchUrl(1), f)
        \/ Resolve(p)

SpecSingleFlight == SingleFlightInit /\ [][SingleFlightNext]_vars

\* The same callers under the scheduling of the event loop: a coroutine that
\* can run is run in the end (the loop's ready queue is first in, first out),
\* and every request that is on completes in the end, with a response or with
\* an exception (the timeouts of lines 97 and 383).
GateFairness == \A p \in Procs : WF_vars(Resolve(p))

SpecGate == SingleFlightInit /\ [][SingleFlightNext]_vars /\ GateFairness

\* The transport alone, with two callers of _make_robust_request.
FetchCallers == {1, 2}

FetchInit ==
    /\ file = NoFile
    /\ Constructed

FetchNext ==
    \E p \in FetchCallers :
        \/ \E r \in 1..MaxRetries, d \in 1..MaxDelay : FetchCall(p, r, d)
        \/ \E rep \in Replies : FetchCallDone(p, rep)
        \/ Transport(p)

SpecFetch == FetchInit /\ [][FetchNext]_vars

\* The transport and close(): callers of _make_robust_request with the default
\* delay, and of close().
SessionNext ==
    \E p \in FetchCallers :
        \/ \E r \in 1..MaxRetries : FetchCall(p, r, DefaultDelay)
        \/ \E rep \in Replies : FetchCallDone(p, rep)
        \/ Transport(p)
        \/ CloseCall(p)

SpecSession == FetchInit /\ [][SessionNext]_vars

\* The cache store alone.
CacheInit ==
    /\ file \in ForeignFiles \cup {SaveCache(d) : d \in AllDicts}
    /\ Constructed

CacheMutate(c, d) ==
    /\ cache' = IF DictHas(cache, c) THEN DictDel(cache, c) ELSE DictSet(cache, c, d)
    /\ hist' = [op |-> "mutate", prev |-> hist.op, prev2 |-> hist.prev,
                raised |-> FALSE, cache0 |-> <<>>, file0 |-> NoFile]
    /\ UNCHANGED <<file, session, baseUrl, ctx, locks, lockObj, proc, fetch,
                   running, calls, faults>>

CacheNext ==
    \/ CacheSave
    \/ CacheLoad
    \/ \E c \in Channels, d \in StoreDescs : CacheMutate(c, d)

SpecCache == CacheInit /\ [][CacheNext]_vars

\* An extractor without a cache file, before any call.
Fresh ==
    /\ file = NoFile
    /\ cache = <<>>
    /\ session = "none"
    /\ baseUrl = NoBase
    /\ ctx = ""
    /\ locks = [c \in Channels |-> 0]
    /\ lockObj = <<>>
    /\ proc = [p \in Procs |-> IdleProc]
    /\ fetch = [p \in Procs |-> NoFetch]
    /\ running = NoProc
    /\ calls = 0
    /\ faults = 0

\* The iframe page alone: any page of Pages, with or without a channel key.
PageInit ==
    /\ Fresh
    /\ hist \in {[op |-> "page", has_key |-> k, js |-> js, check |-> <<>>] :
                    k \in BOOLEAN, js \in Pages(Blobs(Styles))}

\* Lines 286-327 are run on the page.
PageRead ==
    /\ hist.op = "page"
    /\ hist' = [hist EXCEPT !.op = "checked", !.check = PageCheck(hist.has_key, hist.js)]
    /\ UNCHANGED <<cache, file, session, baseUrl, ctx, locks, lockObj, proc, fetch,
                   running, calls, faults>>

SpecPage == PageInit /\ [][PageRead]_vars

\* Blobs in which a target goes by several names at once, each name with a
\* value of its own: the object that has, for target i, the names at the
\* places present[i] of its list.
AliasValue(i, j, style) ==
    IF style = "plain" THEN <<JunkChar, i, j>> ELSE B64Encode(<<KeyBase + i, KeyBase + j>>)

AliasBlob(present, style) ==
    LET at == {ij \in (1..Len(KeyMappings)) \X (1..4) : ij[2] \in present[ij[1]]}
        place(n) == CHOOSE ij \in at : KeyMappings[ij[1]].names[ij[2]] = n
    IN  [ok |-> TRUE,
         obj |-> [n \in {KeyMappings[ij[1]].names[ij[2]] : ij \in at} |->
                     AliasValue(place(n)[1], place(n)[2], style)]]

AliasSets == {{}, {1}, {4}, {1, 4}, {2, 3}}
AliasBlobs(sets) ==
    {AliasBlob(present, "encoded") : present \in [1..Len(KeyMappings) -> sets]}
        \cup {AliasBlob([i \in 1..Len(KeyMappings) |-> s], "plain") : s \in sets}

\* A complete blob whose values differ from those of every blob above.
OtherBlob == PlainBlob("encoded")

\* Pages of one blob, of a blob after one that is skipped (it does not decode
\* or parse, or it is incomplete), and of a blob before another complete one.
AliasPages(blobs) ==
    {<<>>, <<BadBlob, BadBlob>>}
        \cup {<<b>> : b \in blobs}
        \cup {<<BadBlob, b>> : b \in blobs}
        \cup {<<AliasBlob([i \in 1..Len(KeyMappings) |-> IF i = 5 THEN {} ELSE {1}],
                          "encoded"), b>> : b \in blobs}
        \cup {<<b, OtherBlob>> : b \in blobs}

\* _extract_auth_params_dynamic alone: any page of AliasPages.
AliasInit ==
    /\ Fresh
    /\ hist \in {[op |-> "js", js |-> js, params |-> EmptyParams] :
                    js \in AliasPages(AliasBlobs(AliasSets))}

\* Lines 217-252 are run on the page.
AliasRead ==
    /\ hist.op = "js"
    /\ hist' = [hist EXCEPT !.op = "params", !.params = ExtractAuthParams(hist.js)]
    /\ UNCHANGED <<cache, file, session, baseUrl, ctx, locks, lockObj, proc, fetch,
                   running, calls, faults>>

SpecAlias == AliasInit /\ [][AliasRead]_vars

\* The server keys a lookup can answer with: one to three of these pieces in
\* a row; and the channel keys of a page.
KeyPieces == {<<"t", "o", "p", "1">>, <<"t", "o", "p", "2">>, <<"n", "e", "w">>,
              <<"/">>, <<"c", "d", "n">>, <<"w">>}
UrlServerKeys ==
    KeyPieces \cup {a \o b : a, b \in KeyPieces}
              \cup {a \o b \o c : a, b, c \in KeyPieces}
UrlChannelKeys == {<<"4", "2">>, <<"t", "o", "p", "2", "n", "e", "w", "7">>}

\* The URL synthesis alone: any server key, any channel key.
UrlInit ==
    /\ Fresh
    /\ hist \in {[op |-> "key", server_key |-> sk, channel_key |-> ck, url |-> <<>>] :
                    sk \in UrlServerKeys, ck \in UrlChannelKeys}

\* Lines 353-360 are run on the server key.
UrlBuilt ==
    /\ hist.op = "key"
    /\ hist' = [hist EXCEPT !.op = "url",
                            !.url = ManifestUrl(hist.server_key, hist.channel_key)]
    /\ UNCHANGED <<cache, file, session, baseUrl, ctx, locks, lockObj, proc, fetch,
                   running, calls, faults>>

SpecUrl == UrlInit /\ [][UrlBuilt]_vars

\* The descriptor alone: the server keys above, and server keys in which a
\* lookup response has one of the characters that end or split the host of a
\* URL.
DescServerKeys ==
    UrlServerKeys \cup
    {a \o <<d>> \o b : a, b \in KeyPieces \cup {<<>>}, d \in {"#", "?", "@", ":"}}

DescInit ==
    /\ Fresh
    /\ hist \in {[op |-> "lookup", server_key |-> sk, channel_key |-> ck,
                  url |-> <<>>, data |-> NoData] :
                    sk \in DescServerKeys, ck \in UrlChannelKeys}

\* Lines 353-365 are run on the server key, with the iframe URL of the walk.
DescBuilt ==
    /\ hist.op = "lookup"
    /\ hist' = [hist EXCEPT !.op = "data",
                   !.url = ManifestUrl(hist.server_key, hist.channel_key),
                   !.data = ResultData(hist.server_key, hist.channel_key, IframeUrl,
                                       Join(<<"h", "t", "t", "p", "s", ":", "/", "/">> \o Netloc(IframeUrlText)))]
    /\ UNCHANGED <<cache, file, session, baseUrl, ctx, locks, lockObj, proc, fetch,
                   running, calls, faults>>

SpecDesc == DescInit /\ [][DescBuilt]_vars

\* The headers of a request alone: an extractor made with any of these
\* request_headers (line 57) sends a request to any of these URLs, with the
\* headers its caller passes (none, or daddylive_headers) and with or without
\* an iframe context.
ExtraHeaders ==
    {NoHeaders, "X-Api-Key" :> <<"k">>, "Cookie" :> <<"c">>,
     ("X-Api-Key" :> <<"k">>) @@ ("Cookie" :> <<"c">>), "User-Agent" :> <<"c", "u", "r", "l">>}
HeaderUrls == {<<"h", "t", "t", "p", "s", ":", "/", "/", "d", "l", "h", "d", ".", "d", "a", "d", "/", "w", "a", "t", "c", "h", ".", "p", "h", "p", "?", "i", "d", "=", "1">>, <<"h", "t", "t", "p", "s", ":", "/", "/", "t", "o", "p", "1", ".", "n", "e", "w", "k", "s", "o", ".", "r", "u", "/", "p", "r", "e", "m", "i", "u", "m", "1", "/", "m", "o", "n", "o", ".", "m", "3", "u", "8">>,
               <<"/", "/", "n", "e", "w", "k", "s", "o", ".", "r", "u", ".", "e", "x", "a", "m", "p", "l", "e", "/", "s", "t", "r", "e", "a", "m", "-", "1", ".", "p", "h", "p">>}
CallerHeaders == {NoHeaders, DaddyliveHeaders(<<"h", "t", "t", "p", "s", ":", "/", "/", "d", "l", "h", "d", ".", "d", "a", "d", "/">>),
                  DaddyliveHeaders(<<"h", "t", "t", "p", "s", ":", "/", "/", "d", "a", "d", "d", "y", "l", "i", "v", "e", ".", "s", "x", "/">>)}

HeadersInit ==
    /\ Fresh
    /\ hist \in {[op |-> "request", request_headers |-> x, url |-> u, headers |-> h,
                  iframe_context |-> c, sent |-> NoHeaders] :
                    x \in ExtraHeaders, u \in HeaderUrls, h \in CallerHeaders,
                    c \in {NoContext, IframeUrlText}}

\* Lines 149-154 are run: the request is sent.
HeadersSent ==
    /\ hist.op = "request"
    /\ hist' = [hist EXCEPT !.op = "sent",
                   !.sent = SentHeaders(FinalHeaders(hist.url, hist.headers,
                                                     hist.iframe_context),
                                        BaseHeaders)]
    /\ UNCHANGED <<cache, file, session, baseUrl, ctx, locks, lockObj, proc, fetch,
                   running, calls, faults>>

SpecHeaders == HeadersInit /\ [][HeadersSent]_vars

\* The extractor called with the watch URL of one channel and with the
\* manifest URL of another, which is on a delivery host: the requests that
\* extract() sends to its input URL (lines 256 and 395) then get the headers
\* of lines 118-126.
ContextUrls == {WatchUrl(1), DeliveryUrl(2)}

ContextNext ==
    \E p \in Procs :
        \/ \E u \in ContextUrls, f \in BOOLEAN : ExtractCall(p, u, f)
        \/ CacheHit(p)
        \/ Resolve(p)

\* The extractor starts without a cache file or with every channel cached.
ContextInit ==
    /\ file \in {NoFile} \cup {SaveCache(d) : d \in {e \in InitDicts : Len(e) = NumChannels}}
    /\ Constructed

SpecContext == ContextInit /\ [][ContextNext]_vars

\* run_extraction (lines 434-461): one coroutine that makes an extractor,
\* calls extract() once, prints the envelope, closes the extractor and
\* returns the exit code.  hist holds what the run has printed, what it wrote
\* to the output file, whether close() was called and the code returned
\* (<<>> before the return).
CliCaller == 1
NoOutput == [success |-> FALSE, input_url |-> NoUrl]
CliStart == [op |-> "run", stdout |-> <<>>, outfile |-> NoOutput, closed |-> FALSE,
             rc |-> <<>>]

CliInit ==
    /\ file \in InitFiles
    /\ cache = LoadCache(file).val
    /\ hist = CliStart
    /\ session = "none"
    /\ baseUrl = NoBase
    /\ ctx = ""
    /\ locks = [c \in Channels |-> 0]
    /\ lockObj = <<>>
    /\ proc = [p \in Procs |-> IdleProc]
    /\ fetch = [p \in Procs |-> NoFetch]
    /\ running = NoProc
    /\ calls = 0
    /\ faults = 0

\* What leaves extract(): nothing, or the ExtractorError of line 408.
RaisedBy(ret) == IF ret.kind = "err" THEN "ExtractorError" ELSE "none"

\* lines 438-442, 453, 457: the envelope
Envelope(url, ret) ==
    IF RaisedBy(ret) = "none"
    THEN [success |-> TRUE, input_url |-> url, result |-> ret.val]
    ELSE [success |-> FALSE, input_url |-> url, error |-> ret.err]

\* A wrapper with one handler for every exception.
ExitCodeFlat(raised) == IF raised = "none" THEN 0 ELSE 3

\* lines 451, 455, 459: the code returned
ExitCode(raised) ==
    IF raised = "none" THEN 0
    ELSE IF raised = "ExtractorError" THEN 2
    ELSE 3

\* Lines 438-461, once extract() is over: on success the envelope is written
\* to the output file (a failing write is logged, lines 447-448) and printed;
\* on failure it is printed; close() is awaited and the code returned.
RunEnd(p, written) ==
    /\ running = NoProc
    /\ hist.op = "run"
    /\ proc[p].pc = "done"
    /\ LET output == Envelope(proc[p].url, proc[p].ret)
       IN  hist' = [op |-> "exit",
                    stdout |-> Append(hist.stdout, output),
                    outfile |-> IF RaisedBy(proc[p].ret) = "none" /\ written
                                THEN output ELSE hist.outfile,
                    closed |-> TRUE,
                    rc |-> <<ExitCode(RaisedBy(proc[p].ret))>>]
    /\ session' = "none"
    /\ UNCHANGED <<cache, file, baseUrl, ctx, locks, lockObj, proc, fetch, running,
                   calls, faults>>

CliNext ==
    \/ \E u \in InputUrls, f \in BOOLEAN :
           hist.op = "run" /\ calls = 0 /\ ExtractCall(CliCaller, u, f)
    \/ CacheHit(CliCaller)
    \/ Gate(CliCaller)
    \/ Locked(CliCaller)
    \/ Walk(CliCaller)
    \/ \E written \in BOOLEAN : RunEnd(CliCaller, written)

SpecCli == CliInit /\ [][CliNext]_vars

\* The URLs a channel id is looked for in: up to MaxPieces of these pieces in
\* a row, and some longer ones in which several patterns match.
IdPieces == {<<"/", "p", "r", "e", "m", "i", "u", "m">>, <<"4", "2", "3", "1">>, <<"/", "m", "o", "n", "o", ".", "m", "3", "u", "8">>, <<"w", "a", "t", "c", "h", ".", "p", "h", "p", "?", "i", "d", "=">>, <<"7", "7", "1">>, <<"/", "W", "a", "t", "c", "h">>,
             <<"/">>, <<"s", "t", "r", "e", "a", "m", "-">>, <<".", "p", "h", "p">>, <<"%", "2", "F">>}

RECURSIVE TextsOf(_)
TextsOf(n) ==
    IF n = 0 THEN {<<>>}
    ELSE LET shorter == TextsOf(n - 1)
         IN  shorter \cup {t \o piece : t \in shorter, piece \in IdPieces}

IdExamples ==
    {<<"h", "t", "t", "p", "s", ":", "/", "/", "t", "o", "p", "1", ".", "n", "e", "w", "k", "s", "o", ".", "r", "u", "/", "t", "o", "p", "1", "/", "c", "d", "n", "/", "p", "r", "e", "m", "i", "u", "m", "4", "2", "3", "1", "/", "m", "o", "n", "o", ".", "m", "3", "u", "8">>,
     <<"h", "t", "t", "p", "s", ":", "/", "/", "d", "l", "h", "d", ".", "d", "a", "d", "/", "w", "a", "t", "c", "h", ".", "p", "h", "p", "?", "i", "d", "=", "7", "7", "1">>,
     <<"h", "t", "t", "p", "s", ":", "/", "/", "d", "l", "h", "d", ".", "d", "a", "d", "/", "P", "L", "A", "Y", "E", "R", "/", "s", "t", "r", "e", "a", "m", "-", "5", ".", "p", "h", "p">>,
     <<"h", "t", "t", "p", "s", ":", "/", "/", "d", "l", "h", "d", ".", "d", "a", "d", "/", "c", "a", "s", "t", "/", "s", "t", "r", "e", "a", "m", "-", "5", ".", "p", "h", "p", "?", "n", "e", "x", "t", "=", "/", "p", "r", "e", "m", "i", "u", "m", "4", "2", "3", "1", "/", "m", "o", "n", "o", ".", "m", "3", "u", "8">>,
     <<"w", "a", "t", "c", "h", ".", "p", "h", "p", "?", "i", "d", "=", "7", "7", "1", "/", "s", "t", "r", "e", "a", "m", "-", "4", "2", "3", "1", ".", "p", "h", "p">>,
     <<"s", "t", "r", "e", "a", "m", "-", "7", "7", "1", ".", "p", "h", "p", "/", "w", "a", "t", "c", "h", "/", "s", "t", "r", "e", "a", "m", "-", "4", "2", "3", "1", ".", "p", "h", "p">>,
     <<"/", "p", "r", "e", "m", "i", "u", "m", "4", "2", "3", "1", "/", "m", "o", "n", "o", ".", "m", "3", "u", "8", "?", "s", "r", "c", "=", "s", "t", "r", "e", "a", "m", "-", "7", "7", "1", ".", "p", "h", "p">>,
     <<"h", "t", "t", "p", "s", ":", "/", "/", "d", "l", "h", "d", ".", "d", "a", "d", "/", "e", "m", "b", "e", "d", "%", "2", "F", "s", "t", "r", "e", "a", "m", "-", "7", "7", "1", ".", "p", "h", "p">>,
     <<"h", "t", "t", "p", "s", ":", "/", "/", "d", "l", "h", "d", ".", "d", "a", "d", "/", "s", "t", "r", "e", "a", "m", "-", "x", ".", "p", "h", "p">>}

IdUrls == TextsOf(MaxPieces) \cup IdExamples

\* The channel-id extraction alone: any URL.
IdInit ==
    /\ Fresh
    /\ hist \in {[op |-> "url", url |-> u, id |-> NoId, inv_id |-> NoId] : u \in IdUrls}

\* extract_channel_id and the loop of invalidate_cache_for_url are run on
\* the URL.
IdRead ==
    /\ hist.op = "url"
    /\ hist' = [hist EXCEPT !.op = "id", !.id = ExtractChannelId(hist.url),
                            !.inv_id = InvalidateChannelId(hist.url)]
    /\ UNCHANGED <<cache, file, session, baseUrl, ctx, locks, lockObj, proc, fetch,
                   running, calls, faults>>

SpecId == IdInit /\ [][IdRead]_vars

-----------------------------------------------------------------------------
(* The cache store: _save_cache and _load_cache *)

\* A file that is missing, empty, or not base64 of JSON.
MissingEmptyCorrupt == {NoFile, FileOf(<<>>)} \cup {FileOf(t) : t \in CorruptTexts}

\* Loading the file that a save has just written gives the dict that was saved.
LoadAfterSave == hist.op = "load" /\ hist.prev = "save" => DictEq(cache, hist.cache0)

\* A load does not raise, and a file that cannot be decoded gives the empty dict.
LoadNeverRaises ==
    hist.op = "load" =>
        /\ ~hist.raised
        /\ file \in MissingEmptyCorrupt => cache = <<>>

\* C7 as stated: for every cache map m, saving m and then loading yields a map
\* equal to m, and saving the result of a load, whatever file was loaded, leaves
\* the file as it was; loading a missing, empty or corrupted file yields the
\* empty map and never raises.
C7_SaveOfAnyLoadKeepsBlob ==
    /\ LoadAfterSave
    /\ hist.op = "save" /\ hist.prev = "load" => file = hist.file0
    /\ LoadNeverRaises

\* C7, amended: for every cache map m, saving m and then loading yields a map
\* equal to m; saving the result of loading a file that _save_cache wrote
\* leaves the file as it was, so that save(load()) applied twice does what it
\* does applied once; loading a missing, empty or corrupted file yields the
\* empty map and never raises.
C7_RoundTrip ==
    /\ LoadAfterSave
    /\ hist.op = "save" /\ hist.prev = "load" /\ hist.prev2 = "save" => file = hist.file0
    /\ LoadNeverRaises

\* A dict of two entries was saved, loaded and saved again.
C7_Witness ==
    /\ hist.op = "save"
    /\ hist.prev = "load"
    /\ hist.prev2 = "save"
    /\ Len(cache) = 2

-----------------------------------------------------------------------------
(* The retry loop of _make_robust_request *)

AllNetwork(outs) == \A i \in 1..Len(outs) : outs[i] = "net"

\* The GETs a request has sent.
Attempts(p) == Len(fetch[p].outs) + (IF fetch[p].phase = "get" THEN 1 ELSE 0)

\* C8: in a fetch with retries = N >= 1 and initial_delay = d whose attempts
\* all fail with a network error, the sleep after failed attempt i (from 0) is
\* d * 2^i, there are N GETs and N - 1 sleeps when it has raised, none after
\* the last attempt, and 2 s then 4 s for N = 3, d = 2.
C8_BackoffSchedule ==
    \A p \in Procs :
        proc[p].op = "fetch" /\ AllNetwork(fetch[p].outs) =>
            LET fr == fetch[p]
            IN  /\ \A i \in 1..Len(fr.slept) :
                       fr.slept[i] = [after |-> i - 1, secs |-> fr.delay * (2 ^ (i - 1))]
                /\ Len(fr.slept) <= fr.retries - 1
                /\ fr.phase = "backoff" => Len(fr.slept) = Len(fr.outs)
                /\ fr.phase = "raised" =>
                       /\ Len(fr.outs) = fr.retries
                       /\ Len(fr.slept) = fr.retries - 1
                       /\ fr.retries = 3 /\ fr.delay = 2 =>
                              <<fr.slept[1].secs, fr.slept[2].secs>> = <<2, 4>>

\* Three attempts with the default delay all failed with a network error.
C8_Witness ==
    \E p \in Procs :
        /\ proc[p].op = "fetch"
        /\ fetch[p].phase = "raised"
        /\ fetch[p].retries = 3
        /\ fetch[p].delay = 2
        /\ fetch[p].outs = <<"net", "net", "net">>

\* C9 as stated: when an attempt of a fetch fails with a failure that is not a
\* network error, no further GET is sent for that fetch and the failure is
\* raised to the caller.
C9_OtherFailureNotRetried ==
    \A p \in Procs :
        proc[p].op = "fetch" =>
            \A i \in 1..Len(fetch[p].outs) :
                fetch[p].outs[i] = "other" =>
                    i = Len(fetch[p].outs) /\ fetch[p].phase = "raised"

\* C10: a fetch with retries >= 1 sends at most `retries` GETs and ends either
\* by returning a response or by raising ExtractorError; it raises only on the
\* attempt of index retries - 1, and never ends without a response.
C10_FetchEnds ==
    \A p \in Procs :
        proc[p].op = "fetch" =>
            LET fr == fetch[p]
            IN  /\ fr.retries >= 1
                /\ Attempts(p) <= fr.retries
                /\ fr.phase \in {"get", "backoff", "returned", "raised"}
                /\ proc[p].pc = "done" <=> fr.phase \in {"returned", "raised"}
                /\ fr.phase = "returned" =>
                       /\ proc[p].ret.kind = "response"
                       /\ fr.outs[Len(fr.outs)] = "ok"
                /\ fr.phase = "raised" =>
                       /\ proc[p].ret = ErrRet("ExtractorError")
                       /\ fr.attempt = fr.retries - 1
                       /\ Len(fr.outs) = fr.retries
                       /\ fr.outs[Len(fr.outs)] # "ok"

\* A fetch raised on its third attempt, after failures of both kinds.
C10_Witness ==
    \E p \in Procs :
        /\ proc[p].op = "fetch"
        /\ fetch[p].phase = "raised"
        /\ fetch[p].outs = <<"other", "net", "other">>

\* C11: a fetch never returns to its caller a response whose HTTP status is
\* 400 or more: a reply with such a status ends the attempt by raising, and the
\* response a caller gets is the reply of the last attempt, status below 400.
C11_NoErrorStatusReturned ==
    \A p \in Procs :
        proc[p].op = "fetch" /\ proc[p].pc = "done" =>
            /\ proc[p].ret.kind = "response" =>
                   /\ proc[p].ret.val.status < 400
                   /\ proc[p].ret.val.status = fetch[p].reply.status
                   /\ fetch[p].reply.kind = "http"
            /\ fetch[p].reply.kind = "http" /\ fetch[p].reply.status >= 400 =>
                   /\ proc[p].ret.kind = "err"
                   /\ fetch[p].phase = "raised"

\* The last attempt of a fetch was answered 400 with a readable body, and the
\* fetch raised.
C11_Witness ==
    \E p \in Procs :
        /\ proc[p].op = "fetch"
        /\ fetch[p].phase = "raised"
        /\ fetch[p].reply = [kind |-> "http", status |-> 400, decodes |-> TRUE]

-----------------------------------------------------------------------------
(* The shared session *)

\* The fetch of p raises to its caller in this step.
RaisesNow(p) == fetch[p].phase = "get" /\ fetch'[p].phase = "raised"

\* A GET of p is sent in this step: _get_session() has run.
SendsNow(p) == fetch'[p].phase = "get" /\ fetch'[p] # fetch[p]

SessionUse(p) ==
    /\ SendsNow(p) => session' = "open"
    /\ proc'[p].op = "close" /\ proc'[p] # proc[p] => session' = "none"

\* C12 as stated: whenever a fetch fails finally (raises to its caller after
\* its last attempt), the session has been closed and set to None; the next
\* GET finds no session and creates one; and close() drops the session
\* likewise.
C12_FinalFailureTearsDown ==
    [][\A p \in Procs :
          /\ RaisesNow(p) => session' = "none"
          /\ SessionUse(p)
      ]_vars

\* C12, amended: whenever a fetch fails finally with a network error on its
\* last attempt, the session has been closed and set to None when it raises;
\* a final failure of another kind leaves the session as it is; every GET is
\* sent with a session in place, created if there was none; and close() drops
\* the session.
C12_NetworkFailureTearsDown ==
    [][\A p \in Procs :
          /\ RaisesNow(p) /\ fetch'[p].reply.kind = "net" => session' = "none"
          /\ RaisesNow(p) /\ fetch'[p].reply.kind # "net" => session' = session
          /\ SessionUse(p)
      ]_vars

\* A fetch raised on a network error, which dropped the session, and the GET
\* of a later fetch has created a new one.
C12_Witness ==
    \E p, q \in Procs :
        /\ p # q
        /\ fetch[p].phase = "raised"
        /\ fetch[p].outs = <<"net">>
        /\ fetch[q].phase = "get"
        /\ fetch[q].attempt = 0
        /\ session = "open"

-----------------------------------------------------------------------------
(* extract(): the gate *)

IsDone(q) == q.pc = "done" /\ q.op = "extract"

\* The coroutine is inside resolve_base_url or get_stream_data.
Resolving(q) == q.pc \in {"probe", "watch", "player", "iframe", "auth", "lookup"}

\* C1: when two extract() calls for the same channel, which is not in the
\* cache, overlap (the second is made while the first is in flight) and the
\* resolution of the first succeeds, one page-chain walk is made in all: the
\* second call waits on the channel's lock and returns the descriptor that the
\* first one stored.
C1_SingleFlight ==
    \A a, b \in Procs :
        ( /\ a # b
          /\ IsDone(proc[a]) /\ IsDone(proc[b])
          /\ proc[a].ch = proc[b].ch
          /\ ~proc[a].hadEntry /\ ~proc[b].hadEntry
          /\ a \in proc[b].overlap
          /\ proc[a].walks = 1 /\ proc[a].ret.kind = "ok" ) =>
            /\ proc[a].walks + proc[b].walks = 1
            /\ proc[b].waited
            /\ proc[b].ret = proc[a].ret
            /\ DictGet(cache, proc[a].ch) = proc[a].ret.val

\* The second caller waited and got what the first one resolved.
C1_Witness ==
    \E a, b \in Procs :
        /\ a # b
        /\ IsDone(proc[a]) /\ IsDone(proc[b])
        /\ proc[a].overlap = {} /\ proc[b].overlap = {a}
        /\ ~proc[a].hadEntry /\ ~proc[b].hadEntry
        /\ proc[a].walks = 1 /\ proc[b].walks = 0
        /\ proc[b].waited
        /\ proc[a].ret.kind = "ok"
        /\ proc[b].ret = proc[a].ret

MutexInv ==
    \A p, q \in Procs :
        p # q /\ Resolving(proc[p]) /\ Resolving(proc[q]) => proc[p].ch # proc[q].ch

\* A channel's lock, once in the map, stays the same object; a lock that enters
\* the map is a new object, and no lock object goes away.
LocksKept ==
    /\ \A c \in Channels : locks[c] # 0 => locks'[c] = locks[c]
    /\ \A c \in Channels : locks[c] = 0 /\ locks'[c] # 0 => locks'[c] = Len(lockObj) + 1
    /\ Len(lockObj') >= Len(lockObj)

\* C2: under any interleaving of extract() and invalidate_cache_for_url()
\* calls, at most one coroutine at a time is resolving a given channel, and a
\* channel's lock is created once and never replaced or removed.
C2_MutualExclusion == [](MutexInv) /\ [][LocksKept]_vars

\* One caller resolves a channel while another waits on the same lock.
C2_Witness ==
    \E p, q \in Procs :
        /\ p # q
        /\ Resolving(proc[p])
        /\ proc[q].pc = "wait"
        /\ proc[q].ch = proc[p].ch
        /\ proc[q].lock = proc[p].lock

\* C3 as stated: with force_refresh set, extract() does not return an entry
\* that the cache holds for the channel: it runs a resolution of its own, and
\* when that succeeds the cache holds what it resolved.
C3_ForceRefreshBypasses ==
    \A p \in Procs :
        IsDone(proc[p]) /\ proc[p].force /\ proc[p].hadEntry =>
            /\ proc[p].walks >= 1
            /\ proc[p].ret.kind = "ok" => DictGet(cache, proc[p].ch) = proc[p].ret.val

-----------------------------------------------------------------------------
(* extract(): the cache-hit branch *)

\* The coroutine takes a step.
Moves(p) == proc'[p] # proc[p] \/ fetch'[p] # fetch[p]

\* The call found an entry and takes the stale branch: the HEAD probe did not
\* answer 200, or the entry has no destination_url.
GoesStale(p) ==
    \/ proc[p].pc = "head" /\ proc'[p].pc # "head" /\ proc'[p].hit # "valid"
    \/ /\ proc[p].pc \in {"idle", "done"}
       /\ proc'[p].op = "extract" /\ proc'[p].pc # "done"
       /\ ~proc'[p].force
       /\ DictHas(cache, proc'[p].ch)
       /\ DictGet(cache, proc'[p].ch).destination_url = ""

\* C4: a call without force_refresh whose entry fails the HEAD probe (another
\* status, an exception) or lacks its destination_url deletes the entry from
\* the cache and from the file and goes on to the gated resolution; when the
\* call then returns a descriptor, the cache holds it, and the call resolved it
\* itself unless it had to wait for the lock.
C4_StaleHit ==
    [][\A p \in Procs :
          /\ GoesStale(p) => proc'[p].pc = "stale"
          /\ proc[p].pc = "stale" /\ Moves(p) =>
                 /\ ~DictHas(cache', proc[p].ch)
                 /\ ~DictHas(LoadCache(file').val, proc[p].ch)
                 /\ proc'[p].pc = "gate"
                 /\ proc'[p].hit = "stale"
          /\ ( /\ proc[p].hit = "stale" /\ proc[p].pc # "done"
               /\ proc'[p].pc = "done" /\ proc'[p].ret.kind = "ok" ) =>
                 /\ DictHas(cache', proc[p].ch)
                 /\ DictGet(cache', proc[p].ch) = proc'[p].ret.val
                 /\ proc'[p].ret.val.destination_url # ""
                 /\ proc'[p].walks = 1 \/ proc'[p].waited
                 /\ ~proc'[p].waited => proc'[p].walks = 1
      ]_vars

\* A call dropped a stale entry, resolved the channel and returned the new one.
C4_Witness ==
    \E p \in Procs :
        /\ IsDone(proc[p])
        /\ proc[p].hadEntry
        /\ proc[p].hit = "stale"
        /\ proc[p].walks = 1
        /\ proc[p].ret.kind = "ok"
        /\ DictGet(cache, proc[p].ch) = proc[p].ret.val

\* C5: when the HEAD probe of the cached entry answers 200, extract() returns
\* that entry whether the keep-warm request succeeds or fails, and its steps on
\* this path change neither the cache, nor the file, nor the locks, and start
\* no page-chain walk.
C5_ValidHit ==
    [][\A p \in Procs :
          /\ proc[p].pc \in {"idle", "done"} /\ proc'[p].pc = "head" =>
                 proc'[p].cached = DictGet(cache, proc'[p].ch)
          /\ ( \/ proc[p].pc = "head" /\ proc'[p].pc = "warm"
               \/ proc[p].pc = "warm" /\ Moves(p) ) =>
                 /\ cache' = cache
                 /\ file' = file
                 /\ locks' = locks
                 /\ lockObj' = lockObj
                 /\ proc'[p].walks = 0
                 /\ proc'[p].pc \in {"warm", "done"}
                 /\ proc'[p].pc = "warm" => proc'[p].cached = proc[p].cached
                 /\ proc'[p].pc = "done" => proc'[p].ret = OkRet(proc[p].cached)
      ]_vars

\* A valid hit returned its entry although the keep-warm request failed.
C5_Witness ==
    \E p \in Procs :
        /\ IsDone(proc[p])
        /\ proc[p].hit = "valid"
        /\ proc[p].warm = "failed"
        /\ proc[p].ret.kind = "ok"
        /\ proc[p].ret.val.destination_url # ""

\* C6: every change of the cache (the insert after a resolution, the deletes
\* of the stale branch, of the auth failure and of invalidate_cache_for_url)
\* is saved before the coroutine suspends: whenever no coroutine is running,
\* the file decodes to the cache.
C6_WriteThrough ==
    running = NoProc =>
        /\ ~LoadCache(file).raised
        /\ LoadCache(file).val = cache

\* A resolution stored a second entry, and an invalidation had deleted one.
C6_Witness ==
    /\ running = NoProc
    /\ Len(cache) = 1
    /\ \E p, q \in Procs :
           /\ proc[p].pc = "done" /\ proc[p].op = "invalidate" /\ proc[p].hadEntry
           /\ IsDone(proc[q]) /\ proc[q].walks = 1 /\ proc[q].ret.kind = "ok"
           /\ DictHas(cache, proc[q].ch)

-----------------------------------------------------------------------------
(* resolve_base_url *)

\* The call of p leaves line 405 in this step: resolve_base_url has returned.
Resolved(p) == proc[p].pc \in {"locked", "probe"} /\ proc'[p].pc = "watch"

\* C13: when an origin is cached and force_refresh is not set, resolve_base_url
\* returns the cached origin, sends no probe and leaves the cached origin as it
\* is; with force_refresh set (or nothing cached) it probes the candidates
\* from the first one on, with a single-attempt request.
C13_CachedOriginNoProbe ==
    [][\A p \in Procs :
          proc[p].pc = "locked" /\ Moves(p) /\ proc'[p].pc # "done" =>
              /\ baseUrl # NoBase /\ ~proc[p].force =>
                     /\ proc'[p].pc = "watch"
                     /\ proc'[p].base = baseUrl
                     /\ proc'[p].origin = "cached"
                     /\ baseUrl' = baseUrl
              /\ baseUrl = NoBase \/ proc[p].force =>
                     /\ proc'[p].pc = "probe"
                     /\ proc'[p].cand = 1
                     /\ fetch'[p].phase = "get"
                     /\ fetch'[p].retries = 1
      ]_vars

\* One call resolved an origin by probing, which a redirect answered; a later
\* call for the same channel took the origin from the cache.
C13_Witness ==
    \E p, q \in Procs :
        /\ p # q
        /\ IsDone(proc[q]) /\ proc[q].walks = 1 /\ proc[q].ch = proc[p].ch
        /\ proc[p].pc = "watch"
        /\ ~proc[p].force
        /\ proc[p].origin = "cached"
        /\ proc[p].base = <<"h", "t", "t", "p", "s", ":", "/", "/", "m", "o", "v", "e", "d", ".", "e", "x", "a", "m", "p", "l", "e", "/">>

\* C14: resolve_base_url never raises.  The candidates are probed in list
\* order, one attempt each; the first probe that succeeds gives the result,
\* its final URL with '/' appended when missing, and no later candidate is
\* probed; when every probe fails the result is the first candidate as it is.
\* The result ends with '/' and is the cached origin, which always ends with
\* '/' and which later resolutions without force_refresh return (C13).
C14_ResolveNeverRaises ==
    [][\A p \in Procs :
          /\ proc[p].pc = "probe" /\ Moves(p) =>
                 /\ fetch[p].retries = 1
                 /\ proc[p].cand \in 1..Len(DOMAINS)
                 /\ proc'[p].pc \in {"probe", "watch"}
                 /\ proc'[p].pc = "probe" =>
                        /\ proc'[p].cand = proc[p].cand + 1
                        /\ baseUrl' = baseUrl
                        /\ fetch'[p].phase = "get" /\ fetch'[p].retries = 1
                 /\ proc'[p].pc = "watch" =>
                        /\ proc'[p].origin \in {"probed", "fallback"}
                        /\ proc'[p].origin = "probed" =>
                               \E u \in FinalUrls(DOMAINS[proc[p].cand]) :
                                   baseUrl' = IF u[Len(u)] = "/" THEN u ELSE u \o <<"/">>
                        /\ proc'[p].origin = "fallback" =>
                               /\ proc[p].cand = Len(DOMAINS)
                               /\ baseUrl' = DOMAINS[1]
          /\ Resolved(p) =>
                 /\ proc'[p].base = baseUrl'
                 /\ baseUrl'[Len(baseUrl')] = "/"
          /\ baseUrl' # NoBase => baseUrl'[Len(baseUrl')] = "/"
      ]_vars

\* Both probes of a resolution failed: the first candidate is returned and
\* cached.
C14_Witness ==
    \E p \in Procs :
        /\ proc[p].pc = "watch"
        /\ proc[p].origin = "fallback"
        /\ proc[p].base = DOMAINS[1]
        /\ baseUrl = DOMAINS[1]

-----------------------------------------------------------------------------
(* The iframe page *)

\* The logical field a key of a blob stands for.
FieldOf(name) ==
    CASE name \in {"host", "b_host", "server", "domain"} -> "auth_host"
      [] name \in {"script", "b_script", "php", "path"} -> "auth_php"
      [] name \in {"ts", "b_ts", "timestamp", "time"} -> "auth_ts"
      [] name \in {"rnd", "b_rnd", "random", "nonce"} -> "auth_rnd"
      [] name \in {"sig", "b_sig", "signature", "sign"} -> "auth_sig"

FieldsOf(obj) == {FieldOf(n) : n \in DOMAIN obj}

\* C15: the parameters extracted from a page are either none or all five; a
\* page of one blob in which every logical field goes by one of its aliases
\* yields all five, each with the (decoded) value of that field, whatever
\* alias it goes by, so that blobs that differ in their aliases only yield
\* the same parameters; a blob in which a logical field has no alias yields
\* none.
C15_AliasInsensitiveAllOrNothing ==
    hist.op = "checked" =>
        LET params == hist.check.params
        IN  /\ params = <<>> \/ DOMAIN params = Targets
            /\ Len(hist.js) = 1 /\ hist.js[1].ok =>
                   LET obj == hist.js[1].obj
                   IN  IF FieldsOf(obj) = Targets
                       THEN /\ DOMAIN params = Targets
                            /\ \A n \in DOMAIN obj : params[FieldOf(n)] = DecodeValue(obj[n])
                       ELSE params = <<>>

\* The blob with the aliases b_host, php, b_ts, random and sign gave all five
\* parameters.
C15_Witness ==
    /\ hist.op = "checked"
    /\ Len(hist.js) = 1
    /\ hist.js[1].ok
    /\ DOMAIN hist.js[1].obj = {"b_host", "php", "b_ts", "random", "sign"}
    /\ DOMAIN hist.check.params = Targets
    /\ hist.check.params["auth_sig"] = [decoded |-> TRUE, val |-> <<KeyBase + 5>>]

\* The fields the check of lines 300-311 names, in its order, for a page
\* without a complete blob.
AllAuthLabels ==
    <<"auth_ts (timestamp)", "auth_rnd (random)", "auth_sig (signature)",
      "auth_host (host)", "auth_php (script)">>

\* C16: when the channel key is not found on the page, or no blob of the page
\* yields a complete set, the page leads to one error, "Missing params", that
\* names all the missing fields together, in the order channel_key, auth_ts,
\* auth_rnd, auth_sig, auth_host, auth_php, and to no auth request; the auth
\* request is sent only when nothing is missing.
C16_MissingParamsTogether ==
    hist.op = "checked" =>
        LET check == hist.check
            no_key == IF hist.has_key THEN <<>> ELSE <<"channel_key">>
        IN  /\ ~hist.has_key \/ check.params = <<>> =>
                   /\ check.request = "none"
                   /\ Len(check.error) = 2
                   /\ check.error[1] = "Missing params"
                   /\ check.params = <<>> => check.error[2] = no_key \o AllAuthLabels
                   /\ check.params # <<>> =>
                          /\ Len(check.error[2]) >= 1
                          /\ check.error[2][1] = "channel_key"
            /\ check.request = "auth" <=> check.missing = <<>>
            /\ check.request = "auth" =>
                   hist.has_key /\ DOMAIN check.params = Targets /\ check.error = <<>>

\* A page without a channel key and without a complete blob: one error names
\* the six fields.
C16_Witness ==
    /\ hist.op = "checked"
    /\ ~hist.has_key
    /\ Len(hist.js) = 2
    /\ hist.check.request = "none"
    /\ hist.check.error = <<"Missing params", <<"channel_key">> \o AllAuthLabels>>

-----------------------------------------------------------------------------
(* get_stream_data: the auth request *)

AuthFailed == <<"DLHD extraction failed", "Parameter extraction failed", "Auth failed",
                "request failed">>

-----------------------------------------------------------------------------
(* extract(): its outcomes *)

\* C20: extract() ends in one of two ways: it returns a descriptor, whole as
\* the cache holds or held it, or it raises ExtractorError, whose message is
\* "DLHD extraction failed: " followed by the message of the cause, whatever
\* step failed; nothing is returned along with an error.
C20_ErrorNormalization ==
    \A p \in Procs :
        IsDone(proc[p]) =>
            LET r == proc[p].ret
            IN  /\ r.kind \in {"ok", "err"}
                /\ r.kind = "ok" => r.val \in Descs /\ r.err = ""
                /\ r.kind = "err" =>
                       /\ r.val = NoData
                       /\ Len(r.err) >= 2
                       /\ r.err[1] = "DLHD extraction failed"
                       /\ r.err[2] # "DLHD extraction failed"

\* Two calls failed: one for a URL without a channel id, one at its server
\* lookup, whose answer had no server_key.
C20_Witness ==
    \E p, q \in Procs :
        /\ IsDone(proc[p]) /\ IsDone(proc[q])
        /\ proc[p].ret.kind = "err" /\ proc[q].ret.kind = "err"
        /\ proc[p].ret.err = <<"DLHD extraction failed", "Unable to extract channel ID">>
        /\ proc[q].ret.err = <<"DLHD extraction failed", "Parameter extraction failed",
                               "Server lookup failed", "No server_key in lookup response">>

-----------------------------------------------------------------------------
(* get_stream_data: the manifest URL *)

\* The text before the first '/' of a text that has one.
BeforeSlash(text) ==
    SubSeq(text, 1, (CHOOSE i \in 1..Len(text) :
                        text[i] = "/" /\ \A k \in 1..(i - 1) : text[k] # "/") - 1)

\* C18: for the server key "top1/cdn" and a channel key k the manifest URL is
\* https://top1.newkso.ru/top1/cdn/k/mono.m3u8; for any other server key with
\* a '/' in it, it is https://{the text before the first '/'}.newkso.ru/
\* {server_key}/{k}/mono.m3u8, with no substitution of top2new.
C18_SlashKeyUrl ==
    hist.op = "url" /\ (\E i \in 1..Len(hist.server_key) : hist.server_key[i] = "/") =>
        IF Join(hist.server_key) = "top1/cdn"
        THEN Join(hist.url) = "https://top1.newkso.ru/top1/cdn/"
                                  \o Join(hist.channel_key) \o "/mono.m3u8"
        ELSE Join(hist.url) = "https://" \o Join(BeforeSlash(hist.server_key))
                                  \o ".newkso.ru/" \o Join(hist.server_key) \o "/"
                                  \o Join(hist.channel_key) \o "/mono.m3u8"

\* The URL for the server key "top1/cdn" and the channel key "42".
C18_Witness ==
    /\ hist.op = "url"
    /\ Join(hist.server_key) = "top1/cdn"
    /\ Join(hist.channel_key) = "42"
    /\ Join(hist.url) = "https://top1.newkso.ru/top1/cdn/42/mono.m3u8"

\* The character at place i of a text in which every "top2new" has become
\* "top1new": the '2' of an occurrence is '1', every other character stays.
Substituted(text, i) ==
    IF /\ i > 3 /\ i + 3 <= Len(text)
       /\ Join(SubSeq(text, i - 3, i + 3)) = "top2new"
    THEN "1" ELSE text[i]

\* C19: for a server key without '/', the manifest URL is
\* https://{server_key}new.newkso.ru/{server_key}/{channel_key}/mono.m3u8 with
\* every occurrence of "top2new" replaced by "top1new": the server key
\* "top2new" gives the host top1newnew.newkso.ru, and a URL without "top2new"
\* is left as it is.
C19_PlainKeyUrl ==
    hist.op = "url" /\ (\A i \in 1..Len(hist.server_key) : hist.server_key[i] # "/") =>
        LET new == <<"n", "e", "w">>
            raw == <<"h", "t", "t", "p", "s", ":", "/", "/">> \o hist.server_key \o new
                       \o <<".">> \o new \o <<"k", "s", "o", ".", "r", "u", "/">>
                       \o hist.server_key \o <<"/">> \o hist.channel_key
                       \o <<"/", "m", "o", "n", "o", ".", "m", "3", "u", "8">>
        IN  /\ Len(hist.url) = Len(raw)
            /\ \A i \in 1..Len(raw) : hist.url[i] = Substituted(raw, i)
            /\ Join(hist.server_key) = "top2new" /\ Join(hist.channel_key) = "42" =>
                   Join(hist.url) = "https://top1newnew.newkso.ru/top1new/42/mono.m3u8"

\* The URL for the server key "top2new" and the channel key "42".
C19_Witness ==
    /\ hist.op = "url"
    /\ Join(hist.server_key) = "top2new"
    /\ Join(hist.channel_key) = "42"
    /\ Join(hist.url) = "https://top1newnew.newkso.ru/top1new/42/mono.m3u8"

-----------------------------------------------------------------------------
(* The channel id of a URL *)

\* A call is made by p in this step.
CallsNow(p) == proc[p].pc \in {"idle", "done"} /\ proc'[p] # proc[p]

NoPatternMatches(u) == \A k \in 1..Len(Patterns) : ~Search(Patterns[k], u).ok
NoPatternUrls == {u \in InputUrls : NoPatternMatches(u)}

\* C21: when no channel-id pattern matches the URL, extract() ends at once
\* with the error "Unable to extract channel ID": no request is sent, no lock
\* is created, and the cache and the cache file stay as they are.
C21_NoChannelIdFailsAtOnce ==
    [][\A p \in Procs :
          CallsNow(p) /\ proc'[p].op = "extract" /\ proc'[p].url \in NoPatternUrls =>
              /\ proc'[p].pc = "done"
              /\ proc'[p].ret.kind = "err"
              /\ proc'[p].ret.err = <<"DLHD extraction failed",
                                      "Unable to extract channel ID">>
              /\ proc'[p].lock = 0
              /\ UNCHANGED <<cache, file, locks, lockObj, session, fetch>>]_vars

\* An extract() of a URL without channel id has failed on an extractor that
\* has a cache and has answered another call before.
C21_Witness ==
    \E p \in Procs :
        /\ proc[p].pc = "done" /\ proc[p].op = "extract"
        /\ proc[p].url = NoMatchUrl
        /\ proc[p].ret.kind = "err"
        /\ Len(cache) > 0
        /\ calls = 2

AllDigits(text) == \A i \in 1..Len(text) : text[i] \in DigitChars

\* C22: the channel id of a URL is the capture of the first pattern of the
\* list that matches it, None when none does; .../premium4231/mono.m3u8 gives
\* "4231" and watch.php?id=771 gives "771"; and invalidate_cache_for_url
\* derives the same id as extract() from the same URL.
C22_FirstPatternWins ==
    hist.op = "id" =>
        /\ \/ /\ NoPatternMatches(hist.url)
              /\ hist.id = NoId
           \/ \E k \in 1..Len(Patterns) :
                 /\ Search(Patterns[k], hist.url).ok
                 /\ \A j \in 1..(k - 1) : ~Search(Patterns[j], hist.url).ok
                 /\ hist.id = Search(Patterns[k], hist.url).cap
                 /\ Len(hist.id) > 0 /\ AllDigits(hist.id)
        /\ hist.inv_id = hist.id
        /\ Join(hist.url) = "https://top1.newkso.ru/top1/cdn/premium4231/mono.m3u8"
               => Join(hist.id) = "4231"
        /\ Join(hist.url) = "https://dlhd.dad/watch.php?id=771" => Join(hist.id) = "771"
        /\ Join(hist.url) = "watch.php?id=771/stream-4231.php" => Join(hist.id) = "771"
        /\ Join(hist.url) = "stream-771.php/watch/stream-4231.php"
               => Join(hist.id) = "4231"

\* A URL in which the third pattern captures 771 and the last two 4231.
C22_Witness ==
    /\ hist.op = "id"
    /\ Join(hist.url) = "watch.php?id=771/stream-4231.php"
    /\ Join(hist.id) = "771"
    /\ Join(hist.inv_id) = "771"
    /\ Search(Patterns[5], hist.url).ok
    /\ Join(Search(Patterns[5], hist.url).cap) = "4231"

-----------------------------------------------------------------------------
(* invalidate_cache_for_url *)

\* C24: an invalidation of a URL whose channel is in the cache removes that
\* entry, leaves every other entry as it is and saves the cache; an
\* invalidation of a URL without channel id, or whose channel is not in the
\* cache, leaves the cache and the cache file as they are; nothing is raised.
C24_InvalidateFrame ==
    [][\A p \in Procs :
          CallsNow(p) /\ proc'[p].op = "invalidate" =>
              LET c == ExtractIds[proc'[p].url]
              IN  /\ proc'[p].pc = "done"
                  /\ proc'[p].ret = NoRet
                  /\ UNCHANGED <<locks, lockObj, session, fetch>>
                  /\ IF c # NoChannel /\ DictHas(cache, c)
                     THEN /\ ~DictHas(cache', c)
                          /\ cache' = SelectSeq(cache, LAMBDA e : e.k # c)
                          /\ LoadCache(file').val = cache'
                     ELSE UNCHANGED <<cache, file>>]_vars

\* An invalidation has removed one of two entries.
C24_Witness ==
    \E p \in Procs :
        /\ proc[p].pc = "done" /\ proc[p].op = "invalidate"
        /\ proc[p].hadEntry
        /\ Len(cache) = 1
        /\ ~DictHas(cache, proc[p].ch)
        /\ file = SaveCache(cache)
        /\ calls = 1

-----------------------------------------------------------------------------
(* run_extraction *)

\* C23: a run prints nothing before extract() is over and then exactly one
\* envelope, and returns the matching code: 0 with {success: true, input_url,
\* result} exactly when extract() returned a descriptor, 2 with {success:
\* false, input_url, error} when extract() raised ExtractorError, 3 for any
\* other failure; and close() has been called when it returns.
C23_EnvelopeAndCode ==
    LET r == proc[CliCaller].ret
    IN  /\ hist.op = "run" => hist.stdout = <<>> /\ hist.rc = <<>>
        /\ hist.op = "exit" =>
               /\ Len(hist.stdout) = 1
               /\ hist.closed /\ session = "none"
               /\ hist.rc \in {<<0>>, <<2>>, <<3>>}
               /\ hist.rc = <<0>> <=> r.kind = "ok"
               /\ r.kind = "ok" =>
                      hist.stdout[1] = [success |-> TRUE,
                                        input_url |-> proc[CliCaller].url,
                                        result |-> r.val]
               /\ r.kind = "err" =>
                      /\ hist.rc = <<2>>
                      /\ hist.stdout[1] = [success |-> FALSE,
                                           input_url |-> proc[CliCaller].url,
                                           error |-> r.err]
               /\ hist.rc = <<3>> => r.kind \notin {"ok", "err"}

\* A run whose resolution failed at the auth request has printed the failure
\* envelope and returned 2.
C23_Witness ==
    /\ hist.op = "exit"
    /\ hist.rc = <<2>>
    /\ hist.stdout = <<[success |-> FALSE, input_url |-> WatchUrl(1),
                        error |-> AuthFailed]>>
    /\ hist.closed

-----------------------------------------------------------------------------
(* The headers of a request *)

\* C25: every header of the request_headers the extractor was made with is
\* among the headers of every request it sends.
C25_ExtraHeadersSent ==
    hist.op = "sent" =>
        \A n \in DOMAIN hist.request_headers :
            \E m \in DOMAIN hist.sent :
                SameName(n, m) /\ hist.sent[m] = hist.request_headers[n]

\* What is sent instead: Accept-Encoding, the caller's headers, the headers of
\* a delivery host, and the session's user-agent when none of these names
\* one; whatever request_headers holds.
HeadersIgnoreExtra ==
    hist.op = "sent" =>
        /\ hist.sent["Accept-Encoding"] = <<"g", "z", "i", "p", ",", " ", "d", "e", "f", "l", "a", "t", "e", ",", " ", "b", "r", ",", " ", "z", "s", "t", "d">>
        /\ \E m \in DOMAIN hist.sent : SameName(m, "user-agent")
        /\ DOMAIN hist.sent \subseteq
               {"Accept-Encoding", "User-Agent", "user-agent", "Referer", "Origin"}

-----------------------------------------------------------------------------
(* The iframe context *)

\* C26: the iframe URL that one extract() call recorded is never in the
\* headers of a stream-delivery request of another call: a call whose request
\* carries an iframe URL as Referer has recorded that iframe URL itself.
C26_ContextOfOwnCall ==
    \A p \in Procs :
        InFlight(proc[p]) /\ proc[p].referer = IframeUrl => proc[p].ifr = IframeUrl

-----------------------------------------------------------------------------
(* The lock and the network *)

\* p holds the lock of its channel.
HoldsLock(p) ==
    /\ proc[p].lock # 0
    /\ proc[p].pc # "wait"
    /\ locks[proc[p].ch] = proc[p].lock
    /\ lockObj[proc[p].lock].locked

\* A request of p's extract() is on: the HEAD probe of its validation session,
\* or a request of _make_robust_request.
RequestOn(p) ==
    proc[p].op = "extract" /\ (proc[p].pc = "head" \/ fetch[p] # NoFetch)

\* C27: no request of extract() is on while the call does not hold the lock of
\* its channel, the HEAD probe and the keep-warm request included.
C27_NetworkUnderLock == \A p \in Procs : RequestOn(p) => HoldsLock(p)

\* What holds instead: the requests of resolve_base_url and get_stream_data
\* are sent with the lock held; those of the cache-hit branch are not.
WalkUnderLock ==
    \A p \in Procs :
        RequestOn(p) => IF proc[p].pc \in {"head", "warm"} THEN proc[p].lock = 0
                        ELSE HoldsLock(p)

-----------------------------------------------------------------------------
(* The order of the steps of a resolution *)

\* p's call goes from step a to step b.
StepsFrom(p, a, b) == proc[p].pc = a /\ proc'[p].pc = b

\* The request that p's call had on has ended in this step, with a response.
Succeeds(p) ==
    /\ fetch[p].phase = "get"
    /\ proc'[p] # proc[p]
    /\ proc'[p].got = "ok"

\* An entry for channel c is put into the cache in this step.
Stored(c) ==
    /\ DictHas(cache', c)
    /\ ~DictHas(cache, c) \/ DictGet(cache', c) # DictGet(cache, c)

\* C28: within one extraction the steps are taken in order: the watch page is
\* requested on entering get_stream_data, a player page only after the watch
\* page or another player page, the iframe only after a player page, the auth
\* request only after the iframe page, the server lookup only after an auth
\* request that succeeded, and an entry is put into the cache only by a call
\* whose lookup succeeded and returned a non-empty server_key, as its last
\* step.
C28_StepOrder ==
    [][/\ \A p \in Procs :
             /\ proc'[p].pc = "watch" /\ proc[p].pc # "watch" =>
                    \/ proc[p].pc \in {"locked", "probe"} /\ proc'[p].walks = 1
                    \/ StepsFrom(p, "auth", "watch") /\ ~Succeeds(p)
                           /\ proc'[p].walks = proc[p].walks + 1
             /\ proc'[p].pc = "player" =>
                    \/ StepsFrom(p, "watch", "player") /\ Succeeds(p)
                    \/ proc[p].pc = "player"
             /\ proc'[p].pc = "iframe" =>
                    \/ StepsFrom(p, "player", "iframe") /\ Succeeds(p)
                    \/ proc[p].pc = "iframe"
             /\ proc'[p].pc = "auth" =>
                    \/ StepsFrom(p, "iframe", "auth") /\ Succeeds(p)
                    \/ proc[p].pc = "auth"
             /\ proc'[p].pc = "lookup" =>
                    \/ StepsFrom(p, "auth", "lookup") /\ Succeeds(p)
                    \/ proc[p].pc = "lookup"
       /\ \A c \in Channels :
             Stored(c) =>
                 \E p \in Procs :
                     /\ StepsFrom(p, "lookup", "done") /\ Succeeds(p)
                     /\ proc[p].ch = c
                     /\ proc'[p].ret.kind = "ok"
                     /\ \E k \in ServerKeys :
                            DictGet(cache', c) = ResultData(k, ChannelKey(c), proc[p].ifr,
                                                            IframeOrigin)]_vars

\* A resolution went through all its steps, the second player page giving the
\* iframe, and stored its result.
C28_Witness ==
    \E p \in Procs :
        /\ proc[p].pc = "done" /\ proc[p].op = "extract"
        /\ proc[p].walks = 1
        /\ proc[p].ret.kind = "ok"
        /\ ~proc[p].hadEntry
        /\ DictHas(cache, proc[p].ch)
        /\ DictGet(cache, proc[p].ch) = proc[p].ret.val
        /\ proc[p].got = "ok"
        /\ faults = MaxFaults

-----------------------------------------------------------------------------
(* The player links *)

\* C29: when the watch page has no player link the resolution fails with
\* "No player links found": a call whose watch request succeeded either goes
\* on to the first of at least one player link, or ends with that error,
\* sends no further request, releases its lock and leaves the cache and the
\* cache file as they are.
C29_NoLinksFails ==
    [][\A p \in Procs :
          proc[p].pc = "watch" /\ Succeeds(p) /\ proc'[p] # proc[p] =>
              \/ /\ proc'[p].pc = "player"
                 /\ proc'[p].nlinks \in 1..MaxLinks
                 /\ proc'[p].link = 1
              \/ /\ proc'[p].pc = "done"
                 /\ proc'[p].ret = ErrRet(<<"DLHD extraction failed",
                                            "No player links found">>)
                 /\ fetch'[p] = NoFetch
                 /\ ~lockObj'[proc[p].lock].locked
                 /\ UNCHANGED <<cache, file, ctx>>]_vars

\* A resolution of a channel that is not cached, on an extractor that has
\* another channel cached, has failed for want of player links.
C29_Witness ==
    \E p \in Procs :
        /\ proc[p].pc = "done" /\ proc[p].op = "extract"
        /\ proc[p].ret = ErrRet(<<"DLHD extraction failed", "No player links found">>)
        /\ proc[p].walks = 1
        /\ Len(cache) = 1
        /\ ~DictHas(cache, proc[p].ch)
        /\ proc[p].got = "ok"
        /\ fetch[p] = NoFetch

\* C30: the player links are tried in document order, one at a time.  A call
\* requests a player page only from the watch page (link 1) or from the link
\* before; a link whose request failed or whose page has no iframe is passed
\* over for the next one; the first page with an iframe gives the iframe URL,
\* which is requested next, and no player link after it; when the last link
\* is passed over the resolution fails, with "All player links failed" if
\* any request failed and with "No iframe found" otherwise.
C30_FirstIframeWins ==
    [][\A p \in Procs :
          /\ proc'[p].pc = "player" /\ proc'[p] # proc[p] =>
                 /\ proc[p].pc \in {"watch", "player"}
                 /\ proc'[p].link = proc[p].link + 1
                 /\ proc'[p].link <= proc'[p].nlinks
          /\ proc[p].pc = "player" /\ proc'[p] # proc[p] =>
                 \/ /\ proc'[p].pc = "iframe"
                    /\ Succeeds(p)
                    /\ proc'[p].ifr = IframeUrl
                    /\ ctx' = IframeUrl
                 \/ /\ proc'[p].pc = "player"
                    /\ proc'[p].nlinks = proc[p].nlinks
                    /\ proc'[p].lastErr # NoError <=>
                           proc[p].lastErr # NoError \/ ~Succeeds(p)
                    /\ proc'[p].ifr = ""
                    /\ UNCHANGED <<ctx, cache, file>>
                 \/ /\ proc'[p].pc = "done"
                    /\ proc[p].link = proc[p].nlinks
                    /\ proc'[p].ret.kind = "err"
                    /\ IF proc[p].lastErr # NoError \/ ~Succeeds(p)
                       THEN SubSeq(proc'[p].ret.err, 1, 3) =
                                <<"DLHD extraction failed", "All player links failed",
                                  "request failed">>
                       ELSE proc'[p].ret.err = <<"DLHD extraction failed", "No iframe found">>
                    /\ UNCHANGED <<ctx, cache, file>>]_vars

\* The first player link failed and the call is requesting the second.
C30_Witness ==
    \E p \in Procs :
        /\ proc[p].pc = "player"
        /\ proc[p].nlinks = 2 /\ proc[p].link = 2
        /\ proc[p].lastErr # NoError
        /\ proc[p].got = "raised"
        /\ proc[p].ifr = ""

\* The links of p's walk that come before the one it is at.
Earlier(p) == 1..(proc[p].link - 1)

\* C31: when no player link gives an iframe the resolution fails with the
\* error of the last player link that raised ("All player links failed: ..."),
\* and with "No iframe found" exactly when none raised; no iframe and no auth
\* request is sent.  While the links are tried, the error kept is that of a
\* link tried before, and that of the link just tried when that one raised.
C31_LastErrorSurfaces ==
    [][\A p \in Procs :
          /\ proc'[p].pc = "player" =>
                 /\ \/ proc'[p].lastErr = NoError
                    \/ \E k \in 1..(proc'[p].link - 1) : proc'[p].lastErr = PlayerError(k)
                 /\ proc[p].pc = "player" /\ proc'[p].link > proc[p].link =>
                        proc'[p].lastErr = IF Succeeds(p) THEN proc[p].lastErr
                                           ELSE PlayerError(proc[p].link)
          /\ proc[p].pc = "player" /\ proc'[p].pc = "done" =>
                 /\ proc'[p].ret.kind = "err"
                 /\ proc'[p].ret.err =
                        IF ~Succeeds(p)
                        THEN <<"DLHD extraction failed", "All player links failed">>
                                 \o PlayerError(proc[p].link)
                        ELSE IF proc[p].lastErr # NoError
                        THEN <<"DLHD extraction failed", "All player links failed">>
                                 \o proc[p].lastErr
                        ELSE <<"DLHD extraction failed", "No iframe found">>
                 /\ fetch'[p] = NoFetch
                 /\ UNCHANGED <<ctx, cache, file>>]_vars

\* Both player links raised and the resolution failed with the error of the
\* second.
C31_Witness ==
    \E p \in Procs :
        /\ proc[p].pc = "done" /\ proc[p].op = "extract"
        /\ proc[p].ret.kind = "err"
        /\ proc[p].ret.err = <<"DLHD extraction failed", "All player links failed">>
                                 \o PlayerError(2)
        /\ proc[p].got = "raised"
        /\ faults = MaxFaults

-----------------------------------------------------------------------------
(* The auth parameters: aliases and blobs *)

\* The blob decodes and parses, and has a name for every target.
CompleteBlob(blob) ==
    blob.ok /\ \A i \in 1..Len(KeyMappings) :
                   \E j \in 1..Len(KeyMappings[i].names) :
                       KeyMappings[i].names[j] \in DOMAIN blob.obj

\* The value a blob gives the target i: that of the name that comes first in
\* the target's list among the names the blob has.
ValueBy(blob, i, v) ==
    \E j \in 1..Len(KeyMappings[i].names) :
        /\ KeyMappings[i].names[j] \in DOMAIN blob.obj
        /\ \A k \in 1..(j - 1) : KeyMappings[i].names[k] \notin DOMAIN blob.obj
        /\ v = DecodeValue(blob.obj[KeyMappings[i].names[j]])

\* C32: the parameters of a page are those of its first complete blob, blobs
\* that do not decode or parse or that lack a field being passed over, and
\* none when no blob is complete; in that blob each field has the value of
\* the first name of its priority list that the blob has: `sig` wins over
\* `sign` when both are present.
C32_AliasAndBlobPriority ==
    hist.op = "params" =>
        IF \A n \in 1..Len(hist.js) : ~CompleteBlob(hist.js[n])
        THEN hist.params = EmptyParams
        ELSE \E n \in 1..Len(hist.js) :
                 /\ CompleteBlob(hist.js[n])
                 /\ \A m \in 1..(n - 1) : ~CompleteBlob(hist.js[m])
                 /\ DOMAIN hist.params = Targets
                 /\ \A i \in 1..Len(KeyMappings) :
                        ValueBy(hist.js[n], i, hist.params[KeyMappings[i].target])
                 /\ {"sig", "sign"} \subseteq DOMAIN hist.js[n].obj =>
                        hist.params["auth_sig"] = DecodeValue(hist.js[n].obj["sig"])

\* A page whose first blob lacks the signature and whose second has it as
\* `sig` and as `sign`, and the host as `server` and as `b_host`: the
\* parameters are the second blob's, with the values of `sig` and `b_host`.
C32_Witness ==
    /\ hist.op = "params"
    /\ Len(hist.js) = 2
    /\ ~CompleteBlob(hist.js[1]) /\ hist.js[1].ok
    /\ {"sig", "sign", "b_host", "server"} \subseteq DOMAIN hist.js[2].obj
    /\ DOMAIN hist.params = Targets
    /\ hist.params["auth_sig"] = [decoded |-> TRUE, val |-> <<KeyBase + 5, KeyBase + 1>>]
    /\ hist.params["auth_host"] = [decoded |-> TRUE, val |-> <<KeyBase + 1, KeyBase + 2>>]
    /\ hist.js[2].obj["sign"] # hist.js[2].obj["sig"]

\* The header of this name among the headers h, None (<<>>) when absent.
HeaderOf(h, name) == IF name \in DOMAIN h THEN h[name] ELSE <<>>

\* C33: a request to a host that contains newkso.ru is sent with the iframe
\* context as Referer and https://{iframe host} as Origin when an iframe
\* context is recorded, and with the request URL's own scheme://host as both
\* otherwise, whatever Referer and Origin its caller passed; a request to any
\* other host is sent with the caller's Referer and Origin as they are.
C33_DeliveryHostOverride ==
    hist.op = "sent" =>
        LET host == Netloc(hist.url)
            own  == Scheme(hist.url) \o <<":", "/", "/">> \o host
        IN  IF Occurs(<<"n", "e", "w", "k", "s", "o", ".", "r", "u">>, host)
            THEN IF hist.iframe_context # NoContext
                 THEN /\ HeaderOf(hist.sent, "Referer") = hist.iframe_context
                      /\ HeaderOf(hist.sent, "Origin") = <<"h", "t", "t", "p", "s", ":", "/", "/", "e", "m", "b", "e", "d", ".", "e", "x", "a", "m", "p", "l", "e">>
                 ELSE /\ HeaderOf(hist.sent, "Referer") = own
                      /\ HeaderOf(hist.sent, "Origin") = own
            ELSE /\ HeaderOf(hist.sent, "Referer") = HeaderOf(hist.headers, "Referer")
                 /\ HeaderOf(hist.sent, "Origin") = HeaderOf(hist.headers, "Origin")

\* A request to a delivery host whose caller passed the site's Referer and
\* Origin was sent with those of the iframe.
C33_Witness ==
    /\ hist.op = "sent"
    /\ Join(hist.url) = "https://top1.newkso.ru/premium1/mono.m3u8"
    /\ hist.iframe_context = IframeUrlText
    /\ "Referer" \in DOMAIN hist.headers
    /\ Join(hist.headers["Referer"]) = "https://dlhd.dad/"
    /\ Join(hist.sent["Referer"]) = "https://embed.example/premiumtv/frame.php"
    /\ Join(hist.sent["Origin"]) = "https://embed.example"

-----------------------------------------------------------------------------
(* The descriptor *)

\* The text ends with this ending.
EndsWith(text, ending) ==
    Len(text) >= Len(ending) /\ StandsAt(ending, text, Len(text) - Len(ending) + 1)

\* C34: the descriptor of a resolution has a destination_url on a newkso.ru
\* host that ends in /mono.m3u8, and request_headers whose Referer is the
\* iframe URL and whose Origin is https://{iframe host}.
C34_DescriptorOnDeliveryHost ==
    hist.op = "data" =>
        /\ EndsWith(Netloc(hist.url), <<".", "n", "e", "w", "k", "s", "o", ".", "r", "u">>)
        /\ EndsWith(hist.url, <<"/", "m", "o", "n", "o", ".", "m", "3", "u", "8">>)
        /\ hist.data.request_headers.Referer = IframeUrl
        /\ hist.data.request_headers.Origin = "https://embed.example"

\* What holds for every server key and channel key: the URL has the text
\* newkso.ru in it and ends in /mono.m3u8, so that the branch of line 362 is
\* the one taken; and the host is on newkso.ru when the server key has none
\* of the characters '#', '?', '@' and ':'.
DescriptorHeaders ==
    hist.op = "data" =>
        /\ Occurs(<<".", "n", "e", "w", "k", "s", "o", ".", "r", "u", "/">>, hist.url)
        /\ EndsWith(hist.url, <<"/", "m", "o", "n", "o", ".", "m", "3", "u", "8">>)
        /\ hist.data.destination_url = Join(hist.url)
        /\ hist.data.request_headers =
               [UserAgent |-> UserAgent, Referer |-> IframeUrl,
                Origin |-> "https://embed.example"]
        /\ hist.data.mediaflow_endpoint = "hls_manifest_proxy"
        /\ (\A i \in 1..Len(hist.server_key) :
                hist.server_key[i] \notin {"#", "?", "@", ":"}) =>
               EndsWith(Netloc(hist.url), <<".", "n", "e", "w", "k", "s", "o", ".", "r", "u">>)

-----------------------------------------------------------------------------
(* Concurrent calls and the stale branch *)

\* C35: the stale branch of extract() deletes only the entry it validated:
\* when a call at lines 389-392 finds an entry of its channel in the cache,
\* that entry is the one it read at line 377 and probed, never a descriptor
\* that another call has stored since.
C35_DeletesWhatItValidated ==
    [][\A p \in Procs :
          ( /\ proc[p].pc = "stale" /\ Moves(p)
            /\ DictHas(cache, proc[p].ch) ) =>
                DictGet(cache, proc[p].ch) = proc[p].cached
      ]_vars

\* C36: while a call is inside resolve_base_url or get_stream_data for channel
\* c, from the re-check of line 403 to its own store of line 365, c is not in
\* the cache, whatever other extract() and invalidate_cache_for_url() calls
\* do meanwhile; so an auth request that raises never finds the entry of line
\* 329: it ends the call with the error "Auth failed", without deleting
\* anything and without entering get_stream_data again.
C36_AbsentWhileResolving ==
    [][\A p \in Procs :
          /\ Resolving(proc[p]) => ~DictHas(cache, proc[p].ch)
          /\ Resolving(proc'[p]) => ~DictHas(cache', proc'[p].ch)
          /\ ( /\ proc[p].pc = "auth"
               /\ proc'[p] # proc[p]
               /\ proc'[p].got = "raised" ) =>
                 /\ proc'[p].pc = "done"
                 /\ proc'[p].ret =
                        ErrRet(ExtractError(WalkError(Wrapped("Auth failed", RequestFailed))))
                 /\ proc'[p].walks = proc[p].walks
                 /\ cache' = cache
                 /\ file' = file
      ]_vars

\* A call's auth request has raised and ended the call, while another call
\* or an invalidation for the same channel was made during the resolution.
C36_Witness ==
    \E p \in Procs :
        /\ IsDone(proc[p])
        /\ proc[p].walks = 1
        /\ proc[p].ret = ErrRet(ExtractError(WalkError(Wrapped("Auth failed", RequestFailed))))
        /\ \E o \in Procs \ {p} :
               /\ proc[o].ch = proc[p].ch
               /\ \/ proc[o].op = "invalidate" /\ proc[o].pc = "done"
                  \/ proc[o].op = "extract" /\ proc[o].pc = "wait"

\* A GET of p's extract() is in flight on the shared session (line 154).
GetInFlight(p) == proc[p].op = "extract" /\ fetch[p].phase = "get"

\* C37: the shared session is never closed while a request of an extraction
\* is in flight on it: whenever a GET of an extract() call is in flight, the
\* session it was sent on is still there.
C37_SessionKeptWhileInUse ==
    \A p \in Procs : GetInFlight(p) => session = "open"

-----------------------------------------------------------------------------
(* What a resolution leaves in the cache *)

\* A descriptor with its three fields filled in.
Complete(d) ==
    /\ d.destination_url \notin {"", "none"}
    /\ DOMAIN d.request_headers = {"UserAgent", "Referer", "Origin"}
    /\ \A h \in DOMAIN d.request_headers : d.request_headers[h] # ""
    /\ d.mediaflow_endpoint = MediaflowEndpoint

\* C38: the steps of a resolution (resolve_base_url and get_stream_data) leave
\* the cache and the file as they are, whether the resolution goes on or fails
\* at the page chain, the parameter extraction, the auth request or the
\* lookup; only the step that ends it with a result stores an entry, for the
\* call's own channel, which is the complete descriptor returned, and saves
\* the cache with it.
C38_NoPartialResults ==
    [][\A p \in Procs :
          Resolving(proc[p]) /\ Moves(p) =>
              IF proc'[p].pc = "done" /\ proc'[p].ret.kind = "ok"
              THEN /\ proc[p].pc = "lookup"
                   /\ Complete(proc'[p].ret.val)
                   /\ cache' = DictSet(cache, proc[p].ch, proc'[p].ret.val)
                   /\ file' = SaveCache(cache')
                   /\ LoadCache(file').val = cache'
              ELSE /\ cache' = cache
                   /\ file' = file
      ]_vars

\* A resolution has failed at its last request, the lookup, on an extractor
\* whose cache holds another channel's entry.
C38_Witness ==
    \E p \in Procs :
        /\ IsDone(proc[p])
        /\ proc[p].walks = 1
        /\ proc[p].ret.kind = "err"
        /\ Len(proc[p].ret.err) >= 3
        /\ proc[p].ret.err[3] = "Server lookup failed"
        /\ ~DictHas(cache, proc[p].ch)
        /\ cache # <<>>
        /\ LoadCache(file).val = cache

-----------------------------------------------------------------------------
(* The gate under fair scheduling *)

\* The call has the lock after waiting for it, and its channel is still not in
\* the cache: the call that held the lock before has failed.
FollowsFailedLeader(p) ==
    /\ proc[p].pc = "locked"
    /\ proc[p].waited
    /\ ~DictHas(cache, proc[p].ch)

\* C39: the lock of a channel is free again in the step in which its holder
\* leaves extract(), by return or by error; every call that waits for a lock
\* acquires it in the end; and a call that acquires it after waiting and
\* finds its channel still not in the cache goes on to resolve_base_url and
\* get_stream_data and ends after a page-chain walk of its own, with a
\* descriptor or with an ExtractorError.
C39_GateLiveness ==
    /\ [][\A p \in Procs :
             /\ HoldsLock(p) /\ proc'[p].pc = "done" =>
                    ~lockObj'[proc[p].lock].locked
             /\ FollowsFailedLeader(p) /\ Moves(p) =>
                    proc'[p].pc \in {"probe", "watch"}
         ]_vars
    /\ \A p \in Procs : (proc[p].pc = "wait") ~> (proc[p].pc = "locked")
    /\ \A p \in Procs :
           FollowsFailedLeader(p) ~>
               ( /\ IsDone(proc[p])
                 /\ proc[p].walks = 1
                 /\ proc[p].ret.kind \in {"ok", "err"} )

\* A call that waited for the lock behind a call that failed has made its own
\* walk and returned a descriptor.
C39_Witness ==
    \E p \in Procs :
        /\ IsDone(proc[p])
        /\ proc[p].waited
        /\ proc[p].walks = 1
        /\ proc[p].ret.kind = "ok"
        /\ \E o \in Procs \ {p} :
               IsDone(proc[o]) /\ proc[o].walks = 1 /\ proc[o].ret.kind = "err"

=============================================================================
